---- MODULE Spec2Model ----
(***************************************************************************)
(* A model of ticktick-mcp: the token store and the Auth Manager           *)
(* (auth.py), the API client with its inbox probe and today aggregation    *)
(* (client.py), and the tool registry and RPC loop (server.py).            *)
(*                                                                         *)
(* Python values are tagged records, so that None, strings, integers,      *)
(* dicts and coroutine objects can be told apart and Python's truthiness   *)
(* can be computed as the interpreter computes it.                         *)
(***************************************************************************)
EXTENDS Integers, Sequences, FiniteSets, TLC

VARIABLES
    env,     \* os.environ: the TICKTICK_* variables read by get_access_token
    file,    \* the token file
    now,     \* the clock, in milliseconds
    client,  \* the TickTickClient instance
    probes,  \* how many inbox probes were executed since the process started
    last,    \* the operation that has just run, with its inputs and its outcome
    rpc      \* the RPC loop of run(): its position, the message at hand, the
             \* lines written to stdout and what was read so far

vars == <<env, file, now, client, probes, last, rpc>>

(***************************************************************************)
(* Bounds of the model.                                                    *)
(***************************************************************************)
\* the clock is advanced while it is at most MaxNow 60-second steps
MaxNow == 3
\* at most MaxProjects projects are listed by GET /project
MaxProjects == 2
\* inbox probes are counted up to MaxProbes
MaxProbes == 2
\* the RPC loop reads at most MaxLines lines before the end of input
MaxLines == 2
\* process_tasks is given at most MaxTasks tasks
MaxTasks == 2

(***************************************************************************)
(* Python values.                                                          *)
(***************************************************************************)
None == [t |-> "None"]
Str(s) == [t |-> "str", v |-> s]
Num(n) == [t |-> "int", v |-> n]
Dict(d) == [t |-> "dict", v |-> d]
List(q) == [t |-> "list", v |-> q]
Bool(b) == [t |-> "bool", v |-> b]
\* what calling an `async def` function without awaiting it evaluates to
Coroutine(fn) == [t |-> "coroutine", fn |-> fn]

\* the element of a singleton: Only({F(x) : x \in {e}}) is F(e), with e
\* computed once
Only(S) == CHOOSE x \in S : TRUE

\* bool(x)
Truthy(x) ==
    CASE x.t = "None" -> FALSE
      [] x.t = "str" -> x.v # ""
      [] x.t = "int" -> x.v # 0
      [] x.t = "dict" -> DOMAIN x.v # {}
      [] x.t = "list" -> x.v # <<>>
      [] x.t = "bool" -> x.v
      [] OTHER -> TRUE

\* d.get(k) on a dict
Get(d, k) == IF k \in DOMAIN d.v THEN d.v[k] ELSE None

\* x or y
Or(x, y) == IF Truthy(x) THEN x ELSE y

(***************************************************************************)
(* Program constants.                                                      *)
(***************************************************************************)
\* the expiry buffer of get_access_token, in milliseconds
EXPIRY_BUFFER_MS == 60000
\* expires_in when the token endpoint's answer has none, in seconds
DEFAULT_EXPIRES_IN == 3600

(***************************************************************************)
(* JSON (json.dumps, json.loads).  A JSON text is the tree of its tokens:  *)
(* null, true and false, a string, a number, an object with its members in *)
(* order of their names, an array.                                         *)
(***************************************************************************)
RECURSIVE Serializable(_)
\* json.dumps raises TypeError on what is no JSON value, at any depth
Serializable(v) ==
    CASE v.t \in {"None", "str", "int", "bool"} -> TRUE
      [] v.t = "dict" -> \A k \in DOMAIN v.v : Serializable(v.v[k])
      [] v.t = "list" -> \A i \in 1..Len(v.v) : Serializable(v.v[i])
      [] OTHER -> FALSE

RECURSIVE json_dumps(_)
\* json.dumps(v) of a serializable value
json_dumps(v) ==
    CASE v.t = "None" -> [j |-> "null"]
      [] v.t = "bool" -> [j |-> IF v.v THEN "true" ELSE "false"]
      [] v.t = "str" -> [j |-> "string", chars |-> v.v]
      [] v.t = "int" -> [j |-> "number", digits |-> v.v]
      [] v.t = "dict" -> [j |-> "object",
                          members |-> [k \in DOMAIN v.v |-> json_dumps(v.v[k])]]
      [] v.t = "list" -> [j |-> "array",
                          items |-> [i \in 1..Len(v.v) |-> json_dumps(v.v[i])]]

RECURSIVE json_loads(_)
\* json.loads(x) of a JSON text
json_loads(x) ==
    CASE x.j = "null" -> None
      [] x.j = "true" -> Bool(TRUE)
      [] x.j = "false" -> Bool(FALSE)
      [] x.j = "string" -> Str(x.chars)
      [] x.j = "number" -> Num(x.digits)
      [] x.j = "object" -> Dict([k \in DOMAIN x.members |-> json_loads(x.members[k])])
      [] x.j = "array" -> List([i \in 1..Len(x.items) |-> json_loads(x.items[i])])

(***************************************************************************)
(* Token store (auth.py: save_tokens, load_tokens).                        *)
(* The token file is missing, holds text that is no JSON, or holds a JSON  *)
(* text.                                                                   *)
(***************************************************************************)
Missing == [k |-> "missing"]
Garbage == [k |-> "garbage"]
\* the file that write_text(json.dumps(v)) leaves
JsonText(v) == [k |-> "json", text |-> json_dumps(v)]

\* save_tokens that opens the file for writing before json.dumps is
\* evaluated: an argument json.dumps rejects leaves an empty file
SaveTokensTruncateFirst(f, tokens) ==
    IF Serializable(tokens)
    THEN [raised |-> FALSE, file |-> JsonText(tokens)]
    ELSE [raised |-> TRUE, file |-> Garbage]

\* save_tokens(tokens): the file after the call, and whether it raised.
\* json.dumps is evaluated before write_text opens the file.
save_tokens(f, tokens) ==
    IF Serializable(tokens)
    THEN [raised |-> FALSE, file |-> JsonText(tokens)]
    ELSE [raised |-> TRUE, file |-> f]

\* load_tokens() on a file that read_text can decode: None when the file is
\* missing or its text is no JSON
load_tokens(f) == IF f.k = "json" THEN json_loads(f.text) ELSE None

\* a file whose bytes are no text in the encoding read_text uses
Undecodable == [k |-> "bytes"]

\* TOKEN_FILE.read_text(): the text, or the exception raised
read_text(f) ==
    CASE f.k = "missing" -> [raised |-> TRUE, exc |-> "FileNotFoundError"]
      [] f.k = "bytes" -> [raised |-> TRUE, exc |-> "UnicodeDecodeError"]
      [] OTHER -> [raised |-> FALSE, exc |-> "none"]

\* load_tokens() as a call: what it returns, or the exception that leaves it.
\* The except clause names FileNotFoundError and json.JSONDecodeError only.
LoadTokens(f) ==
    LET r == read_text(f)
    IN  IF r.raised /\ r.exc # "FileNotFoundError"
        THEN [raised |-> TRUE, value |-> None, exc |-> r.exc]
        ELSE [raised |-> FALSE, value |-> load_tokens(f), exc |-> "none"]

(***************************************************************************)
(* Auth Manager (auth.py).  The answer of the token endpoint to an         *)
(* exchange is an input: its status and the dict of its JSON body.         *)
(***************************************************************************)
\* expires_at of a new TokenSet: _now_ms() + body.get("expires_in", 3600) * 1000
ExpiresAt(body, t) ==
    LET expires_in == IF "expires_in" \in DOMAIN body.v
                      THEN body.v["expires_in"].v ELSE DEFAULT_EXPIRES_IN
    IN  Num(t + expires_in * 1000)

\* exchange_code(code, client_id, client_secret), awaited
exchange_code(code, client_id, client_secret, resp, t) ==
    IF resp.status >= 400 \/ "access_token" \notin DOMAIN resp.body.v
    THEN [raised |-> TRUE, value |-> None]
    ELSE [raised |-> FALSE,
          value |-> Dict([access_token |-> resp.body.v["access_token"],
                          refresh_token |-> Get(resp.body, "refresh_token"),
                          token_type |-> Get(resp.body, "token_type"),
                          expires_at |-> ExpiresAt(resp.body, t),
                          scope |-> Get(resp.body, "scope")])]

\* refresh_access_token(refresh_token, client_id, client_secret), awaited
refresh_access_token(refresh_token, client_id, client_secret, resp, t) ==
    IF resp.status >= 400 \/ "access_token" \notin DOMAIN resp.body.v
    THEN [raised |-> TRUE, value |-> None]
    ELSE [raised |-> FALSE,
          value |-> Dict([access_token |-> resp.body.v["access_token"],
                          refresh_token |-> Or(Get(resp.body, "refresh_token"), refresh_token),
                          token_type |-> Get(resp.body, "token_type"),
                          expires_at |-> ExpiresAt(resp.body, t),
                          scope |-> Get(resp.body, "scope")])]

\* IsExpired without the 60-second buffer
IsExpiredNoBuffer(tokens, t) ==
    /\ Truthy(Get(tokens, "expires_at"))
    /\ t > Get(tokens, "expires_at").v

\* tokens.get("expires_at") and _now_ms() > tokens["expires_at"] - 60_000
IsExpired(tokens, t) ==
    /\ Truthy(Get(tokens, "expires_at"))
    /\ t > Get(tokens, "expires_at").v - EXPIRY_BUFFER_MS

\* the error get_access_token raises when every path is exhausted
Unauthenticated == "No authentication tokens found. Visit https://nikitatsym.github.io/ticktick-mcp/"

\* EnvTokens that gives the configured token the default lifetime
EnvTokensWithExpiry(e) ==
    Dict([access_token |-> e.TICKTICK_ACCESS_TOKEN,
          refresh_token |-> e.TICKTICK_REFRESH_TOKEN,
          expires_at |-> Num(DEFAULT_EXPIRES_IN * 1000)])

\* Priority 1 of get_access_token: the configured access token
EnvTokens(e) ==
    Dict([access_token |-> e.TICKTICK_ACCESS_TOKEN,
          refresh_token |-> e.TICKTICK_REFRESH_TOKEN,
          expires_at |-> None])

\* DiskTokens that drops saved tokens which carry no refresh token
DiskTokensNeedRefreshToken(f, client_id, client_secret, t, rresp) ==
    LET tokens == load_tokens(f)
    IN  IF ~Truthy(tokens) THEN [tokens |-> tokens, file |-> f, refreshes |-> 0]
        ELSE IF ~Truthy(Get(tokens, "refresh_token"))
        THEN [tokens |-> None, file |-> f, refreshes |-> 0]
        ELSE IF ~IsExpired(tokens, t) THEN [tokens |-> tokens, file |-> f, refreshes |-> 0]
        ELSE IF Truthy(client_id) /\ Truthy(client_secret)
        THEN LET r == refresh_access_token(Get(tokens, "refresh_token"),
                                           client_id, client_secret, rresp, t)
             IN  IF r.raised
                 THEN [tokens |-> None, file |-> f, refreshes |-> 1]
                 ELSE [tokens |-> r.value, file |-> save_tokens(f, r.value).file,
                       refreshes |-> 1]
        ELSE [tokens |-> None, file |-> f, refreshes |-> 0]

\* DiskTokens that goes on with the expired tokens when the refresh fails
DiskTokensKeepOnFailure(f, client_id, client_secret, t, rresp) ==
    LET tokens == load_tokens(f)
    IN  IF ~Truthy(tokens) \/ ~IsExpired(tokens, t)
        THEN [tokens |-> tokens, file |-> f, refreshes |-> 0]
        ELSE IF Truthy(Get(tokens, "refresh_token")) /\ Truthy(client_id) /\ Truthy(client_secret)
        THEN LET r == refresh_access_token(Get(tokens, "refresh_token"),
                                           client_id, client_secret, rresp, t)
             IN  IF r.raised
                 THEN [tokens |-> tokens, file |-> f, refreshes |-> 1]
                 ELSE [tokens |-> r.value, file |-> save_tokens(f, r.value).file,
                       refreshes |-> 1]
        ELSE [tokens |-> None, file |-> f, refreshes |-> 0]

\* DiskTokens that returns the saved tokens without looking at expires_at
DiskTokensIgnoreExpiry(f, client_id, client_secret, t, rresp) ==
    [tokens |-> load_tokens(f), file |-> f, refreshes |-> 0]

\* Priority 2 of get_access_token: the saved tokens, refreshed when expired.
\* The tokens left (None when there are none), the file, the refresh calls.
DiskTokens(f, client_id, client_secret, t, rresp) ==
    LET tokens == load_tokens(f)
    IN  IF ~Truthy(tokens) \/ ~IsExpired(tokens, t)
        THEN [tokens |-> tokens, file |-> f, refreshes |-> 0]
        ELSE IF Truthy(Get(tokens, "refresh_token")) /\ Truthy(client_id) /\ Truthy(client_secret)
        THEN LET r == refresh_access_token(Get(tokens, "refresh_token"),
                                           client_id, client_secret, rresp, t)
             IN  IF r.raised
                 THEN [tokens |-> None, file |-> f, refreshes |-> 1]
                 ELSE [tokens |-> r.value, file |-> save_tokens(f, r.value).file,
                       refreshes |-> 1]
        ELSE [tokens |-> None, file |-> f, refreshes |-> 0]

\* CodeTokens whose failed exchange is not caught
CodeTokensNoCatch(e, f, client_id, client_secret, t, cresp, refreshes) ==
    LET auth_code == e.TICKTICK_AUTH_CODE
    IN  IF Truthy(auth_code) /\ Truthy(client_id) /\ Truthy(client_secret)
        THEN LET x == exchange_code(auth_code, client_id, client_secret, cresp, t)
             IN  IF x.raised
                 THEN [raised |-> TRUE, value |-> Str("Token exchange failed"), file |-> f,
                       refreshes |-> refreshes, exchanges |-> 1]
                 ELSE [raised |-> FALSE, value |-> x.value.v["access_token"],
                       file |-> save_tokens(f, x.value).file,
                       refreshes |-> refreshes, exchanges |-> 1]
        ELSE [raised |-> TRUE, value |-> Str(Unauthenticated), file |-> f,
              refreshes |-> refreshes, exchanges |-> 0]

\* Priority 3 of get_access_token: the one-time auth code exchange, and the
\* final error
CodeTokens(e, f, client_id, client_secret, t, cresp, refreshes) ==
    LET auth_code == e.TICKTICK_AUTH_CODE
    IN  IF Truthy(auth_code) /\ Truthy(client_id) /\ Truthy(client_secret)
        THEN LET x == exchange_code(auth_code, client_id, client_secret, cresp, t)
             IN  IF x.raised
                 THEN [raised |-> TRUE, value |-> Str(Unauthenticated), file |-> f,
                       refreshes |-> refreshes, exchanges |-> 1]
                 ELSE [raised |-> FALSE, value |-> x.value.v["access_token"],
                       file |-> save_tokens(f, x.value).file,
                       refreshes |-> refreshes, exchanges |-> 1]
        ELSE [raised |-> TRUE, value |-> Str(Unauthenticated), file |-> f,
              refreshes |-> refreshes, exchanges |-> 0]

\* get_access_token(client_id, client_secret), awaited: what it returns or
\* raises, the token file it leaves, and the exchanges it performed
get_access_token(e, f, client_id, client_secret, t, rresp, cresp) ==
    IF Truthy(e.TICKTICK_ACCESS_TOKEN)
    THEN [raised |-> FALSE, value |-> e.TICKTICK_ACCESS_TOKEN,
          file |-> save_tokens(f, EnvTokens(e)).file,
          refreshes |-> 0, exchanges |-> 0]
    ELSE LET d == DiskTokens(f, client_id, client_secret, t, rresp)
         IN  IF Truthy(d.tokens)
             THEN [raised |-> FALSE, value |-> d.tokens.v["access_token"],
                   file |-> d.file, refreshes |-> d.refreshes, exchanges |-> 0]
             ELSE CodeTokens(e, d.file, client_id, client_secret, t, cresp, d.refreshes)

(***************************************************************************)
(* API client (client.py).                                                 *)
(*                                                                         *)
(* The remote service, as one handler sees it: the bearer strings it       *)
(* accepts (any other gets HTTP 401) and its answer on each endpoint.      *)
(* An answer is a 2xx response with a JSON body ("json"), a 2xx response   *)
(* with no JSON body ("empty"), an HTTP error status ("httperror") or a    *)
(* failure below HTTP ("urlerror").                                        *)
(***************************************************************************)
JsonResp(payload) == [kind |-> "json", status |-> 200, data |-> payload]
EmptyResp == [kind |-> "empty", status |-> 200, data |-> None]
ErrorResp(status) == [kind |-> "httperror", status |-> status, data |-> Str("error")]
UrlError == [kind |-> "urlerror", status |-> 0, data |-> None]

\* f"Bearer {token}": str() of the token
Format(token) ==
    CASE token.t = "str" -> token.v
      [] token.t = "coroutine" -> "<coroutine object " \o token.fn \o ">"
      [] OTHER -> "None"

\* the remote service's answer to a call
Respond(srv, method, endpoint, token) ==
    IF Format(token) \notin srv.accepts THEN ErrorResp(401)
    ELSE CASE endpoint.path = "/project" -> srv.projects
           [] endpoint.path = "/task" -> srv.create
           [] endpoint.path = "/project/{}/task/{}" -> srv.delete
           [] endpoint.path = "/project/{}/data" -> srv.data[endpoint.pid]

NoExc == [type |-> "none"]
ApiError(status, method, endpoint, data) ==
    [type |-> "Exception", status |-> status, method |-> method,
     endpoint |-> endpoint, data |-> data]
PyError(type) == [type |-> type]

\* get_access_token(...) as client.py calls it: an `async def` called without
\* await returns a coroutine object and runs none of its body
TokenCall(c) == Coroutine("get_access_token")

\* TickTickClient._token with get_access_token called on every request
TokenAlwaysResolves(c) ==
    LET tok == TokenCall(c)
    IN  [client |-> [c EXCEPT !._access_token = tok], token |-> tok, resolved |-> 1]

\* TickTickClient._token: the client after the call, the token returned and
\* the number of calls of get_access_token made
_token(c) ==
    IF ~Truthy(c._access_token)
    THEN LET tok == TokenCall(c)
         IN  [client |-> [c EXCEPT !._access_token = tok], token |-> tok, resolved |-> 1]
    ELSE [client |-> c, token |-> c._access_token, resolved |-> 0]

\* TickTickClient._do_http: (status, data), or an exception that is no HTTPError
_do_http(srv, method, endpoint, token) ==
    LET res == Respond(srv, method, endpoint, token)
    IN  [raised |-> res.kind = "urlerror", status |-> res.status, data |-> res.data]

\* refresh_access_token(...) as client.py calls it: without await, so no
\* request is sent to the token endpoint
RefreshCall(refresh_token, client_id, client_secret, rresp, t) ==
    [raised |-> FALSE, value |-> Coroutine("refresh_access_token"), posts |-> 0]

\* the try block of _request: refresh, save, retry.  exc is what was raised
\* in it; the assignments made before it was raised stand.
RefreshRetry(c, f, srv, method, endpoint, tokens, rresp, t, first) ==
    LET r == RefreshCall(Get(tokens, "refresh_token"), c._client_id, c._client_secret, rresp, t)
        keep == [client |-> c, file |-> f, status |-> first.status, data |-> first.data,
                 calls |-> 1, refreshes |-> r.posts, retried |-> FALSE, exc |-> NoExc]
    IN  IF r.raised THEN [keep EXCEPT !.exc = PyError("Exception")]
        ELSE LET s == save_tokens(f, r.value)
             IN  IF s.raised THEN [keep EXCEPT !.file = s.file, !.exc = PyError("TypeError")]
                 ELSE IF r.value.t # "dict"
                 THEN [keep EXCEPT !.file = s.file, !.exc = PyError("TypeError")]
                 ELSE LET at == r.value.v["access_token"]
                          c2 == [c EXCEPT !._access_token = at]
                          h == _do_http(srv, method, endpoint, at)
                      IN  IF h.raised
                          THEN [keep EXCEPT !.client = c2, !.file = s.file, !.calls = 2,
                                            !.retried = TRUE, !.exc = PyError("URLError")]
                          ELSE [client |-> c2, file |-> s.file, status |-> h.status,
                                data |-> h.data, calls |-> 2, refreshes |-> r.posts,
                                retried |-> TRUE, exc |-> NoExc]

\* the except clause of _request, raising again what it caught
RequestExceptReraise(o) == o

\* `except Exception: pass` of _request
RequestExcept(o) == [o EXCEPT !.exc = NoExc]

\* the 401 path of _request: what the call ends with, after the first answer
AfterFirst(c, f, srv, method, endpoint, rresp, t, first) ==
    IF /\ first.status = 401
       /\ Truthy(load_tokens(f))
       /\ Truthy(Get(load_tokens(f), "refresh_token"))
       /\ Truthy(c._client_id)
       /\ Truthy(c._client_secret)
    THEN RequestExcept(RefreshRetry(c, f, srv, method, endpoint, load_tokens(f),
                                    rresp, t, first))
    ELSE [client |-> c, file |-> f, status |-> first.status, data |-> first.data,
          calls |-> 1, refreshes |-> 0, retried |-> FALSE, exc |-> NoExc]

\* the end of _request with `if status >= 500` in place of `if status >= 400`
OutcomeServerErrorsOnly(method, endpoint, first, fin) ==
    [client |-> fin.client, file |-> fin.file,
     raised |-> fin.exc # NoExc \/ fin.status >= 500,
     value |-> IF fin.exc # NoExc \/ fin.status >= 500 THEN None ELSE fin.data,
     exc |-> IF fin.exc # NoExc THEN fin.exc
             ELSE IF fin.status >= 500
             THEN ApiError(fin.status, method, endpoint, fin.data)
             ELSE NoExc,
     calls |-> fin.calls, refreshes |-> fin.refreshes,
     first |-> first.status, status |-> fin.status, retried |-> fin.retried]

\* the end of _request: raise on a status of 400 or more, else return the data.
\* status is the local of that name as line 55 reads it.
Outcome(method, endpoint, first, fin) ==
    [client |-> fin.client, file |-> fin.file,
     raised |-> fin.exc # NoExc \/ fin.status >= 400,
     value |-> IF fin.exc # NoExc \/ fin.status >= 400 THEN None ELSE fin.data,
     exc |-> IF fin.exc # NoExc THEN fin.exc
             ELSE IF fin.status >= 400
             THEN ApiError(fin.status, method, endpoint, fin.data)
             ELSE NoExc,
     calls |-> fin.calls, refreshes |-> fin.refreshes,
     first |-> first.status, status |-> fin.status, retried |-> fin.retried]

\* _request once the token is at hand
RequestWith(tk, f, srv, method, endpoint, rresp, t) ==
    Only({IF first.raised
          THEN [client |-> tk.client, file |-> f, raised |-> TRUE, value |-> None,
                exc |-> PyError("URLError"), calls |-> 1, refreshes |-> 0,
                first |-> first.status, status |-> first.status, retried |-> FALSE]
          ELSE Only({Outcome(method, endpoint, first, fin) :
                       fin \in {AfterFirst(tk.client, f, srv, method, endpoint, rresp, t,
                                           first)}})
          : first \in {_do_http(srv, method, endpoint, tk.token)}})

\* TickTickClient._request(method, endpoint, body)
_request(c, f, srv, method, endpoint, rresp, t) ==
    Only({[resolved |-> tk.resolved] @@ RequestWith(tk, f, srv, method, endpoint, rresp, t)
          : tk \in {_token(c)}})

(***************************************************************************)
(* Inbox (client.py: get_inbox_id, get_inbox_with_data).                   *)
(***************************************************************************)
TaskEndpoint == [path |-> "/task"]
ProjectsEndpoint == [path |-> "/project"]
DataEndpoint(pid) == [path |-> "/project/{}/data", pid |-> pid]
DeleteEndpoint(pid, tid) == [path |-> "/project/{}/task/{}", pid |-> pid, tid |-> tid]

\* the try block of get_inbox_id: delete the probe task
DeleteProbe(c, f, srv, temp_task, rresp, t) ==
    IF "id" \notin DOMAIN temp_task.v
    THEN [client |-> c, file |-> f, calls |-> 0, refreshes |-> 0, deleted |-> "raised",
          exc |-> PyError("KeyError")]
    ELSE Only({[client |-> d.client, file |-> d.file, calls |-> d.calls,
                refreshes |-> d.refreshes,
                deleted |-> IF d.raised THEN "raised" ELSE "done",
                exc |-> d.exc]
               : d \in {_request(c, f, srv, "DELETE",
                                 DeleteEndpoint(temp_task.v["projectId"].v,
                                                temp_task.v["id"].v),
                                 rresp, t)}})

\* the except clause of get_inbox_id, raising again what it caught
ProbeExceptReraise(o) == o

\* `except Exception: pass` of get_inbox_id
ProbeExcept(o) == [o EXCEPT !.exc = NoExc]

\* get_inbox_id after create_task returned temp_task: cache its projectId,
\* delete it, return the cached id
CacheAndDelete(cr, srv, temp_task, rresp, t) ==
    Only({[client |-> d.client, file |-> d.file, raised |-> d.exc # NoExc,
           value |-> IF d.exc # NoExc THEN None ELSE d.client._inbox_id,
           exc |-> d.exc,
           calls |-> cr.calls + d.calls,
           refreshes |-> cr.refreshes + d.refreshes,
           probes |-> 1, deleted |-> d.deleted]
          : d \in {ProbeExcept(DeleteProbe(
                     [cr.client EXCEPT !._inbox_id = temp_task.v["projectId"]],
                     cr.file, srv, temp_task, rresp, t))}})

\* get_inbox_id after the create_task call of the probe
AfterCreate(cr, srv, rresp, t) ==
    IF cr.raised \/ cr.value.t # "dict" \/ "projectId" \notin DOMAIN cr.value.v
    THEN [client |-> cr.client, file |-> cr.file, raised |-> TRUE, value |-> None,
          exc |-> IF cr.raised THEN cr.exc
                  ELSE IF cr.value.t # "dict" THEN PyError("TypeError")
                  ELSE PyError("KeyError"),
          calls |-> cr.calls, refreshes |-> cr.refreshes,
          probes |-> 1, deleted |-> "none"]
    ELSE CacheAndDelete(cr, srv, cr.value, rresp, t)

\* get_inbox_id that does not look at the cached id
get_inbox_id_uncached(c, f, srv, rresp, t) ==
    Only({AfterCreate(cr, srv, rresp, t) :
            cr \in {_request(c, f, srv, "POST", TaskEndpoint, rresp, t)}})

\* TickTickClient.get_inbox_id
get_inbox_id(c, f, srv, rresp, t) ==
    IF Truthy(c._inbox_id)
    THEN [client |-> c, file |-> f, raised |-> FALSE, value |-> c._inbox_id,
          exc |-> NoExc, calls |-> 0, refreshes |-> 0, probes |-> 0, deleted |-> "none"]
    ELSE Only({AfterCreate(cr, srv, rresp, t) :
                 cr \in {_request(c, f, srv, "POST", TaskEndpoint, rresp, t)}})

\* get_inbox_with_data once the inbox id is at hand
InboxData(i, srv, rresp, t) ==
    IF i.raised THEN i
    ELSE Only({[client |-> d.client, file |-> d.file, raised |-> d.raised,
                value |-> d.value, exc |-> d.exc, calls |-> i.calls + d.calls,
                refreshes |-> i.refreshes + d.refreshes, probes |-> i.probes,
                deleted |-> i.deleted]
               : d \in {_request(i.client, i.file, srv, "GET", DataEndpoint(i.value.v),
                                 rresp, t)}})

\* TickTickClient.get_inbox_with_data
get_inbox_with_data(c, f, srv, rresp, t) ==
    Only({InboxData(i, srv, rresp, t) : i \in {get_inbox_id(c, f, srv, rresp, t)}})

(***************************************************************************)
(* Today aggregation (client.py: _parse_date, get_today_tasks).            *)
(* Due dates are the strings of the model; a parsed date is an instant in  *)
(* milliseconds since the epoch, offset-aware or naive.                    *)
(***************************************************************************)
DAY_MS == 86400000

DueEarlier == "1969-12-30T09:00:00.000+0000"
DueYesterday == "1969-12-31T09:00:00.000+0000"
DueToday == "1970-01-01T23:59:59.000+0000"
DueTomorrow == "1970-01-02T00:00:00.000+0000"
DueNaive == "1970-01-01T09:00:00"
DueGarbage == "tomorrow"

NoDate == [some |-> FALSE, aware |-> FALSE, ms |-> 0]

\* datetime.fromisoformat(clean) after "+0000" was made "+00:00";
\* NoDate stands for its ValueError
FromIsoFormat(str) ==
    CASE str = DueEarlier -> [some |-> TRUE, aware |-> TRUE, ms |-> (9 * 3600000) - 2 * DAY_MS]
      [] str = DueYesterday -> [some |-> TRUE, aware |-> TRUE, ms |-> (9 * 3600000) - DAY_MS]
      [] str = DueToday -> [some |-> TRUE, aware |-> TRUE, ms |-> DAY_MS - 1000]
      [] str = DueTomorrow -> [some |-> TRUE, aware |-> TRUE, ms |-> DAY_MS]
      [] str = DueNaive -> [some |-> TRUE, aware |-> FALSE, ms |-> 9 * 3600000]
      [] OTHER -> NoDate

\* TickTickClient._parse_date
_parse_date(date_str) ==
    IF ~Truthy(date_str) THEN NoDate ELSE FromIsoFormat(date_str.v)

\* now.replace(hour=23, minute=59, second=59, microsecond=999999), to the
\* millisecond
EndOfToday(t) == (t \div DAY_MS) * DAY_MS + (DAY_MS - 1)

\* the place of a string in lexicographic order, among the strings of the model
StrRank(str) ==
    CASE str = "" -> 0
      [] str = DueEarlier -> 1
      [] str = DueYesterday -> 2
      [] str = DueNaive -> 3
      [] str = DueToday -> 4
      [] str = DueTomorrow -> 5
      [] OTHER -> 6

\* the sort key of get_today_tasks: t.get("dueDate") or ""
SortKey(task) == StrRank(Or(Get(task, "dueDate"), Str("")).v)

\* tasks.sort(key=...): ascending by key, tasks of equal keys in their order
\* (the list has the tasks of increasing keys, each group in list order)
SortByDue(tasks) ==
    LET Group(k) == SelectSeq(tasks, LAMBDA x : SortKey(x) = k)
    IN  Group(0) \o Group(1) \o Group(2) \o Group(3) \o Group(4) \o Group(5) \o Group(6)

\* does get_today_tasks keep the task: not completed, due at or before the end
\* of today.  Comparing a naive date with end_of_today raises TypeError.
Keeps(task, t) ==
    LET status == IF "status" \in DOMAIN task.v THEN task.v["status"] ELSE Num(0)
        due == _parse_date(Get(task, "dueDate"))
    IN  IF status = Num(2) THEN [raised |-> FALSE, keep |-> FALSE]
        ELSE IF ~due.some THEN [raised |-> FALSE, keep |-> FALSE]
        ELSE IF ~due.aware THEN [raised |-> TRUE, keep |-> FALSE]
        ELSE [raised |-> FALSE, keep |-> due.ms <= EndOfToday(t)]

\* one turn of the inner loop, without the test of `seen`
ScanTaskNoDedup(task, acc, t) ==
    Only({IF k.raised
          THEN [acc EXCEPT !.seen = @ \cup {task.v["id"]}, !.raised = TRUE,
                           !.exc = PyError("TypeError")]
          ELSE [acc EXCEPT !.seen = @ \cup {task.v["id"]},
                           !.tasks = IF k.keep THEN Append(@, task) ELSE @]
          : k \in {Keeps(task, t)}})

\* one turn of the inner loop of get_today_tasks
ScanTask(task, acc, t) ==
    IF task.v["id"] \in acc.seen THEN acc
    ELSE Only({IF k.raised
               THEN [acc EXCEPT !.seen = @ \cup {task.v["id"]}, !.raised = TRUE,
                                !.exc = PyError("TypeError")]
               ELSE [acc EXCEPT !.seen = @ \cup {task.v["id"]},
                                !.tasks = IF k.keep THEN Append(@, task) ELSE @]
               : k \in {Keeps(task, t)}})

RECURSIVE ScanTasks(_, _, _)
\* the inner loop of get_today_tasks over the tasks of one project
ScanTasks(list, acc, t) ==
    IF list = <<>> \/ acc.raised THEN acc
    ELSE Only({ScanTasks(Tail(list), a, t) : a \in {ScanTask(Head(list), acc, t)}})

\* `except Exception: continue` of get_today_tasks: the project is skipped
FetchExcept(acc, pid) ==
    [acc EXCEPT !.raised = FALSE, !.exc = NoExc, !.skipped = Append(@, pid)]

\* the loop body of get_today_tasks once the project's data was asked for
Fetched(pid, acc, d, t) ==
    IF d.raised
    THEN FetchExcept([acc EXCEPT !.client = d.client, !.file = d.file,
                                 !.calls = @ + d.calls, !.refreshes = @ + d.refreshes,
                                 !.raised = TRUE, !.exc = d.exc], pid)
    ELSE IF d.value.t # "dict"
    THEN [acc EXCEPT !.client = d.client, !.file = d.file,
                     !.calls = @ + d.calls, !.refreshes = @ + d.refreshes,
                     !.raised = TRUE, !.exc = PyError("AttributeError")]
    ELSE ScanTasks(IF "tasks" \in DOMAIN d.value.v THEN d.value.v["tasks"].v ELSE <<>>,
                   [acc EXCEPT !.client = d.client, !.file = d.file,
                               !.calls = @ + d.calls, !.refreshes = @ + d.refreshes,
                               !.fetched = Append(@, pid)],
                   t)

\* the body of the loop of get_today_tasks for one project id
FetchProject(pid, acc, srv, rresp, t) ==
    Only({Fetched(pid, acc, d, t) :
            d \in {_request(acc.client, acc.file, srv, "GET", DataEndpoint(pid), rresp, t)}})

RECURSIVE FetchAll(_, _, _, _, _)
\* the loop of get_today_tasks over project_ids
FetchAll(pids, acc, srv, rresp, t) ==
    IF pids = <<>> \/ acc.raised THEN acc
    ELSE Only({FetchAll(Tail(pids), a, srv, rresp, t) :
                 a \in {FetchProject(Head(pids), acc, srv, rresp, t)}})

\* [p["id"] for p in projects]
ProjectIds(projects) == [i \in 1..Len(projects.v) |-> projects.v[i].v["id"].v]

\* get_today_tasks once the loop is over: sort and return
Sorted(a, i) ==
    [client |-> a.client, file |-> a.file, raised |-> a.raised,
     value |-> IF a.raised THEN None ELSE List(SortByDue(a.tasks)),
     exc |-> a.exc, calls |-> a.calls, refreshes |-> a.refreshes,
     probes |-> i.probes, deleted |-> i.deleted,
     skipped |-> a.skipped, fetched |-> a.fetched]

\* get_today_tasks once the projects are listed and the inbox id is at hand
Aggregate(pr, i, srv, rresp, t) ==
    IF i.raised
    THEN [client |-> i.client, file |-> i.file, raised |-> TRUE,
          value |-> None, exc |-> i.exc, calls |-> pr.calls + i.calls,
          refreshes |-> pr.refreshes + i.refreshes, probes |-> i.probes,
          deleted |-> i.deleted, skipped |-> <<>>, fetched |-> <<>>]
    ELSE Only({Sorted(a, i) :
                 a \in {FetchAll(<<i.value.v>> \o ProjectIds(Or(pr.value, List(<<>>))),
                                 [client |-> i.client, file |-> i.file,
                                  tasks |-> <<>>, seen |-> {},
                                  calls |-> pr.calls + i.calls,
                                  refreshes |-> pr.refreshes + i.refreshes,
                                  raised |-> FALSE, exc |-> NoExc,
                                  skipped |-> <<>>, fetched |-> <<>>],
                                 srv, rresp, t)}})

\* get_today_tasks once GET /project was answered
AfterProjects(pr, srv, rresp, t) ==
    IF pr.raised
    THEN [client |-> pr.client, file |-> pr.file, raised |-> TRUE, value |-> None,
          exc |-> pr.exc, calls |-> pr.calls, refreshes |-> pr.refreshes,
          probes |-> 0, deleted |-> "none", skipped |-> <<>>, fetched |-> <<>>]
    ELSE Only({Aggregate(pr, i, srv, rresp, t) :
                 i \in {get_inbox_id(pr.client, pr.file, srv, rresp, t)}})

\* TickTickClient.get_today_tasks
get_today_tasks(c, f, srv, rresp, t) ==
    Only({AfterProjects(pr, srv, rresp, t) :
            pr \in {_request(c, f, srv, "GET", ProjectsEndpoint, rresp, t)}})

(***************************************************************************)
(* Tool registry and MCP protocol (server.py: TOOLS, _handle).             *)
(***************************************************************************)
\* the keys of TOOLS, in the order the tools are registered
ToolOrder ==
    <<"get_inbox", "get_inbox_id", "list_projects", "get_project",
      "get_project_with_data", "create_project", "update_project", "delete_project",
      "get_task", "create_task", "update_task", "complete_task", "delete_task",
      "batch_create_tasks">>
ToolNames == {ToolOrder[i] : i \in 1..Len(ToolOrder)}

\* the error code of run()
METHOD_NOT_FOUND == -32601
\* the protocol version initialize answers when none is asked for
DefaultProtocol == "2024-11-05"

\* an exception with the text str() gives of it
PyErrorMsg(type, msg) == [type |-> type, msg |-> msg]

\* the path a call was made on
PathText(endpoint) ==
    CASE endpoint.path = "/project/{}/data" -> "/project/" \o endpoint.pid \o "/data"
      [] endpoint.path = "/project/{}/task/{}" ->
           "/project/" \o endpoint.pid \o "/task/" \o endpoint.tid
      [] OTHER -> endpoint.path

\* str(e): for the error of _request,
\* f"TickTick API error {status} {method} {endpoint}: {data}"
ExcText(exc) ==
    IF "status" \in DOMAIN exc
    THEN "TickTick API error " \o ToString(exc.status) \o " " \o exc.method \o " "
         \o PathText(exc.endpoint) \o ": " \o Format(exc.data)
    ELSE IF "msg" \in DOMAIN exc THEN exc.msg
    ELSE exc.type

\* the keyword parameters of the handlers the loop is driven with
HandlerParams(name) ==
    CASE name = "delete_task" -> {"projectId", "taskId"}
      [] name \in {"list_projects", "get_inbox_id", "get_inbox"} -> {}

\* what a handler returns once its client call returned
HandlerValue(name, args, o) ==
    CASE name = "get_inbox_id" -> Dict([inboxId |-> o.value])
      [] name = "delete_task" -> Str("Task " \o Format(args.v["taskId"]) \o " deleted.")
      [] OTHER -> o.value

\* the client call of a handler
ClientCall(name, args, c, f, srv, rresp, t) ==
    CASE name = "list_projects" -> _request(c, f, srv, "GET", ProjectsEndpoint, rresp, t)
      [] name = "get_inbox_id" -> get_inbox_id(c, f, srv, rresp, t)
      [] name = "get_inbox" -> get_inbox_with_data(c, f, srv, rresp, t)
      [] name = "delete_task" ->
           _request(c, f, srv, "DELETE",
                    DeleteEndpoint(Format(args.v["projectId"]), Format(args.v["taskId"])),
                    rresp, t)

\* the outcome of a handler that made no client call
NoCall(c, f, raised, value, exc) ==
    [client |-> c, file |-> f, raised |-> raised, value |-> value, exc |-> exc,
     calls |-> 0, probes |-> 0, invoked |-> FALSE]

\* TOOLS[name]["handler"](client, **args)
CallHandler(name, args, c, f, srv, rresp, t) ==
    IF args.t # "dict"
    THEN NoCall(c, f, TRUE, None,
                PyErrorMsg("TypeError", "argument after ** must be a mapping"))
    ELSE IF DOMAIN args.v # HandlerParams(name)
    THEN NoCall(c, f, TRUE, None,
                PyErrorMsg("TypeError", "_" \o name \o "() got unexpected or missing arguments"))
    ELSE Only({[client |-> o.client, file |-> o.file, raised |-> o.raised,
                value |-> IF o.raised THEN None ELSE HandlerValue(name, args, o),
                exc |-> o.exc, calls |-> o.calls,
                probes |-> IF "probes" \in DOMAIN o THEN o.probes ELSE 0,
                invoked |-> TRUE]
               : o \in {ClientCall(name, args, c, f, srv, rresp, t)}})

\* the result envelope of tools/call
ToolResult(text) ==
    Dict([content |-> List(<<Dict([type |-> Str("text"), text |-> Str(text)])>>)])
ToolError(text) ==
    Dict([content |-> List(<<Dict([type |-> Str("text"), text |-> Str(text)])>>),
          isError |-> Bool(TRUE)])

\* the text of a handler's result: the string itself, or json.dumps of it
ResultText(value) == IF value.t = "str" THEN value.v ELSE json_dumps(value)

\* the try block of tools/call with its except clause: the handler's failure
\* becomes a result with the isError flag
CallExcept(name, h) ==
    IF h.raised \/ ~Serializable(h.value)
    THEN [h EXCEPT !.raised = FALSE, !.exc = NoExc,
                   !.value = ToolError("Error in " \o name \o ": " \o
                                       (IF h.raised THEN ExcText(h.exc)
                                        ELSE "Object is not JSON serializable"))]
    ELSE [h EXCEPT !.value = ToolResult(ResultText(h.value))]

\* the tools/call branch that raises on a name that is not registered
CallToolRaises(name, params, c, f, srv, rresp, t) ==
    IF name.t \notin {"str", "int", "None", "bool"}
    THEN NoCall(c, f, TRUE, None, PyErrorMsg("TypeError", "unhashable type"))
    ELSE IF name.t # "str" \/ name.v \notin ToolNames
    THEN NoCall(c, f, TRUE, None, PyErrorMsg("ValueError", "Unknown tool: " \o Format(name)))
    ELSE Only({CallExcept(name.v, h) :
                 h \in {CallHandler(name.v,
                                    IF "arguments" \in DOMAIN params.v
                                    THEN params.v["arguments"] ELSE Dict(<<>>),
                                    c, f, srv, rresp, t)}})

\* the tools/call branch of _handle, once params["name"] was read
CallTool(name, params, c, f, srv, rresp, t) ==
    IF name.t \notin {"str", "int", "None", "bool"}
    THEN NoCall(c, f, TRUE, None, PyErrorMsg("TypeError", "unhashable type"))
    ELSE IF name.t # "str" \/ name.v \notin ToolNames
    THEN NoCall(c, f, FALSE, ToolError("Unknown tool: " \o Format(name)), NoExc)
    ELSE Only({CallExcept(name.v, h) :
                 h \in {CallHandler(name.v,
                                    IF "arguments" \in DOMAIN params.v
                                    THEN params.v["arguments"] ELSE Dict(<<>>),
                                    c, f, srv, rresp, t)}})

\* the descriptors tools/list answers, by their names
ToolList ==
    Dict([tools |-> List([i \in 1..Len(ToolOrder) |-> Dict([name |-> Str(ToolOrder[i])])])])

\* _handle(method, params, client): what it returns, or what it raises
_handle(method, params, c, f, srv, rresp, t) ==
    IF method = Str("initialize")
    THEN IF params.t # "dict"
         THEN NoCall(c, f, TRUE, None,
                     PyErrorMsg("AttributeError", "object has no attribute 'get'"))
         ELSE NoCall(c, f, FALSE,
                     Dict([protocolVersion |->
                             IF "protocolVersion" \in DOMAIN params.v
                             THEN params.v["protocolVersion"] ELSE Str(DefaultProtocol),
                           capabilities |-> Dict([tools |-> Dict(<<>>)]),
                           serverInfo |-> Dict([name |-> Str("ticktick"),
                                                version |-> Str("1.0.0")])]),
                     NoExc)
    ELSE IF method = Str("tools/list")
    THEN NoCall(c, f, FALSE, ToolList, NoExc)
    ELSE IF method = Str("tools/call")
    THEN IF params.t # "dict"
         THEN NoCall(c, f, TRUE, None,
                     PyErrorMsg("TypeError", "indices must be integers or slices, not str"))
         ELSE IF "name" \notin DOMAIN params.v
         THEN NoCall(c, f, TRUE, None, PyErrorMsg("KeyError", "'name'"))
         ELSE CallTool(params.v["name"], params, c, f, srv, rresp, t)
    ELSE NoCall(c, f, TRUE, None,
                PyErrorMsg("ValueError", "Method not found: " \o Format(method)))

\* the response, with the id left out
ResponseWithoutId(msg_id, h) ==
    IF h.raised
    THEN Dict([jsonrpc |-> Str("2.0"), id |-> None,
               error |-> Dict([code |-> Num(METHOD_NOT_FOUND),
                               message |-> Str(ExcText(h.exc))])])
    ELSE Dict([jsonrpc |-> Str("2.0"), id |-> None, result |-> h.value])

\* the response of run() to a request: the result, or the error object
Response(msg_id, h) ==
    IF h.raised
    THEN Dict([jsonrpc |-> Str("2.0"), id |-> msg_id,
               error |-> Dict([code |-> Num(METHOD_NOT_FOUND),
                               message |-> Str(ExcText(h.exc))])])
    ELSE Dict([jsonrpc |-> Str("2.0"), id |-> msg_id, result |-> h.value])

(***************************************************************************)
(* Inputs.                                                                 *)
(***************************************************************************)
\* client id and secret, as configured
Creds == {<<None, None>>, <<Str("cid"), None>>, <<Str("cid"), Str("sec")>>}
\* the same, for the client: the secret is set or is not
ClientCreds == {<<Str("cid"), None>>, <<Str("cid"), Str("sec")>>}

Envs ==
    [TICKTICK_ACCESS_TOKEN : {None, Str(""), Str("E")},
     TICKTICK_REFRESH_TOKEN : {None, Str("ER")},
     TICKTICK_AUTH_CODE : {None, Str("C")}]

NoEnv ==
    [TICKTICK_ACCESS_TOKEN |-> None, TICKTICK_REFRESH_TOKEN |-> None,
     TICKTICK_AUTH_CODE |-> None]

\* a TokenSet as exchange_code and refresh_access_token build it
TokenSet(access_token, refresh_token, expires_at) ==
    Dict([access_token |-> access_token, refresh_token |-> refresh_token,
          token_type |-> Str("bearer"), expires_at |-> expires_at,
          scope |-> Str("tasks:read tasks:write")])

\* the token files the process may start with
StartFiles ==
    {Missing, Garbage,
     JsonText(Dict([access_token |-> Str("A0"), refresh_token |-> None,
                    expires_at |-> None]))}
    \cup {JsonText(TokenSet(Str("A0"), r, Num(x))) :
            r \in {None, Str("R0")},
            x \in {EXPIRY_BUFFER_MS, 2 * EXPIRY_BUFFER_MS - 1, 2 * EXPIRY_BUFFER_MS}}

\* the answers of the token endpoint
FailedExchange == [status |-> 400, body |-> Dict(<<>>)]
TokenResponses ==
    {FailedExchange,
     [status |-> 200, body |-> Dict(<<>>)],
     [status |-> 200, body |-> Dict([access_token |-> Str("A1")])],
     [status |-> 200, body |-> Dict([access_token |-> Str("A2"), refresh_token |-> Str("R2"),
                                     token_type |-> Str("bearer"), expires_in |-> Num(60),
                                     scope |-> Str("tasks:read tasks:write")])]}

NewClient(client_id, client_secret) ==
    [_client_id |-> client_id, _client_secret |-> client_secret,
     _access_token |-> None, _inbox_id |-> None]

Idle == [op |-> "idle"]
\* run() has not been entered
NotRunning == [pc |-> "off"]

(***************************************************************************)
(* The Auth Manager, called by a caller that awaits it.                    *)
(***************************************************************************)
InitAuth ==
    /\ env \in Envs
    /\ file \in StartFiles
    /\ now = EXPIRY_BUFFER_MS
    /\ \E cr \in Creds : client = NewClient(cr[1], cr[2])
    /\ probes = 0
    /\ last = Idle
    /\ rpc = NotRunning

\* await get_access_token(client_id, client_secret)
GetAccessToken ==
    /\ last = Idle
    /\ \E rresp \in TokenResponses, cresp \in TokenResponses :
       \E out \in {get_access_token(env, file, client._client_id, client._client_secret,
                                     now, rresp, cresp)} :
             /\ out.refreshes = 0 => rresp = FailedExchange
             /\ out.exchanges = 0 => cresp = FailedExchange
             /\ file' = out.file
             /\ last' = [op |-> "get_access_token", file |-> file, now |-> now,
                         rresp |-> rresp, cresp |-> cresp, out |-> out]
    /\ UNCHANGED <<env, now, client, probes, rpc>>

\* time passes
Tick ==
    /\ last = Idle
    /\ now < MaxNow * EXPIRY_BUFFER_MS
    /\ now' = now + EXPIRY_BUFFER_MS
    /\ UNCHANGED <<env, file, client, probes, last, rpc>>

\* the caller takes the outcome of the operation
Return ==
    /\ last # Idle
    /\ last' = Idle
    /\ UNCHANGED <<env, file, now, client, probes, rpc>>

AuthNext == GetAccessToken \/ Tick \/ Return

AuthSpec == InitAuth /\ [][AuthNext]_vars

(***************************************************************************)
(* The token store (auth.py: save_tokens, load_tokens), called by a caller *)
(* that saves and loads.                                                   *)
(***************************************************************************)
\* what callers pass to save_tokens: TokenSets, a record with fewer fields,
\* the empty record, and the coroutine object client.py passes (line 48)
SaveArgs ==
    {TokenSet(Str("A1"), Str("R1"), Num(EXPIRY_BUFFER_MS)),
     TokenSet(Str("A2"), None, Num(2 * EXPIRY_BUFFER_MS)),
     Dict([access_token |-> Str("A3")]),
     Dict([access_token |-> Str("A4"), id_token |-> Str("I4")]),
     Dict(<<>>),
     Coroutine("refresh_access_token")}

\* the token files the store may start with
StoreFiles == StartFiles \cup {Undecodable}

InitStore ==
    /\ env = NoEnv
    /\ file \in StoreFiles
    /\ now = EXPIRY_BUFFER_MS
    /\ client = NewClient(None, None)
    /\ probes = 0
    /\ last = Idle
    /\ rpc = NotRunning

\* save_tokens(tokens)
SaveTokens ==
    /\ last = Idle
    /\ \E tokens \in SaveArgs :
       \E out \in {save_tokens(file, tokens)} :
          /\ file' = out.file
          /\ last' = [op |-> "save_tokens", file |-> file, tokens |-> tokens, out |-> out]
    /\ UNCHANGED <<env, now, client, probes, rpc>>

\* load_tokens(), at any time or right after a save_tokens
LoadCall ==
    /\ last = Idle \/ last.op = "save_tokens"
    /\ \E out \in {LoadTokens(file)} :
          last' = [op |-> "load_tokens", file |-> file, after |-> last, out |-> out]
    /\ UNCHANGED <<env, file, now, client, probes, rpc>>

StoreNext == SaveTokens \/ LoadCall \/ Return

StoreSpec == InitStore /\ [][StoreNext]_vars

(***************************************************************************)
(* Task post-processing (server.py: _extract_brief, _process_tasks, as     *)
(* tests/test_brief.py imports them).  A text is the sequence of its       *)
(* pieces, the tags "<brief>" and "</brief>" being pieces of their own.    *)
(* Task dicts are objects of a heap, a sequence indexed by address; a list *)
(* of tasks is the sequence of the addresses of its elements.              *)
(***************************************************************************)
Text(pieces) == [t |-> "str", v |-> pieces]
\* str.strip() on a text
RECURSIVE strip(_)
strip(q) ==
    IF q = <<>> THEN q
    ELSE IF Head(q) \in {" ", "\n"} THEN strip(Tail(q))
    ELSE IF q[Len(q)] \in {" ", "\n"} THEN strip(SubSeq(q, 1, Len(q) - 1))
    ELSE q

\* the first <brief>...</brief> of a text: the stripped text between the
\* first opening tag that a closing tag follows and the nearest such closing
\* tag; None when there is no match
FirstBrief(text) ==
    LET q == text.v
        opens == {i \in 1..Len(q) : /\ q[i] = "<brief>"
                                     /\ \E j \in (i + 1)..Len(q) : q[j] = "</brief>"}
    IN  IF text.t # "str" \/ opens = {} THEN None
        ELSE LET i == CHOOSE x \in opens : \A y \in opens : x <= y
                 j == CHOOSE x \in (i + 1)..Len(q) :
                        /\ q[x] = "</brief>"
                        /\ \A y \in (i + 1)..(x - 1) : q[y] # "</brief>"
             IN  Text(strip(SubSeq(q, i + 1, j - 1)))

\* _extract_brief(task): the first match in content if there is one, else
\* the first match in desc, else None
_extract_brief(task) ==
    LET c == IF Get(task, "content").t = "str" THEN FirstBrief(Get(task, "content"))
             ELSE None
        d == IF Get(task, "desc").t = "str" THEN FirstBrief(Get(task, "desc"))
             ELSE None
    IN  IF c # None THEN c ELSE d

\* a copy of a task dict without the fields named
Without(task, fields) == Dict([k \in DOMAIN task.v \ fields |-> task.v[k]])

\* the task of the output, were the brief extracted whatever descCompact is
ShapedBriefAlways(task, desc, descCompact) ==
    IF _extract_brief(task) # None
    THEN Dict([brief |-> _extract_brief(task)]
              @@ Without(task, {"content", "desc", "brief"}).v)
    ELSE Without(task, {"content", "desc", "brief"})

\* the task of the output for a task of the input, unless the input is
\* returned as it is: a copy without the description fields, which in
\* compact mode carries the brief when the task has one.  Compact mode
\* extracts the brief whatever desc is (test_process_compact_default_also_
\* extracts_brief), and a task with no tag gets no brief field
\* (test_process_compact_without_brief).
Shaped(task, desc, descCompact) ==
    IF descCompact /\ _extract_brief(task) # None
    THEN Dict([brief |-> _extract_brief(task)]
              @@ Without(task, {"content", "desc", "brief"}).v)
    ELSE Without(task, {"content", "desc", "brief"})

\* _process_tasks that removes the fields from the task dicts it is given
ProcessTasksInPlace(heap, tasks, desc, descCompact) ==
    IF desc /\ ~descCompact
    THEN [heap |-> heap, tasks |-> tasks, result |-> tasks, same |-> TRUE]
    ELSE [heap |-> [a \in 1..Len(heap) |->
                      IF \E i \in 1..Len(tasks) : tasks[i] = a
                      THEN Shaped(heap[a], desc, descCompact) ELSE heap[a]],
          tasks |-> tasks, result |-> tasks, same |-> TRUE]

\* _process_tasks(tasks, desc, descCompact): the heap and the input list
\* after the call, the list returned and whether it is the input list itself.
\* With desc and not descCompact the input is returned; otherwise a new list
\* of new dicts is.
_process_tasks(heap, tasks, desc, descCompact) ==
    IF desc /\ ~descCompact
    THEN [heap |-> heap, tasks |-> tasks, result |-> tasks, same |-> TRUE]
    ELSE [heap |-> heap \o [i \in 1..Len(tasks) |->
                              Shaped(heap[tasks[i]], desc, descCompact)],
          tasks |-> tasks,
          result |-> [i \in 1..Len(tasks) |-> Len(heap) + i],
          same |-> FALSE]

\* the task dicts a caller may hold
TaskObjects ==
    {Dict([id |-> Str("1"), title |-> Str("Has brief"),
           content |-> Text(<<"Full ", "<brief>", "Buy milk", "</brief>", " rest">>),
           desc |-> Text(<<"short">>)]),
     Dict([id |-> Str("2"), title |-> Str("No brief"),
           content |-> Text(<<"Just text">>), desc |-> Text(<<"also text">>)]),
     Dict([id |-> Str("3"), title |-> Str("No content")]),
     Dict([id |-> Str("4"), title |-> Str("In desc"),
           desc |-> Text(<<"<brief>", " ", "From desc", "\n", "</brief>">>)]),
     Dict([id |-> Str("5"), title |-> Str("Both"),
           content |-> Text(<<"<brief>", "A", "</brief>", " mid ", "<brief>", "B",
                              "</brief>">>),
           desc |-> Text(<<"<brief>", "From desc", "</brief>">>),
           brief |-> Text(<<"old">>)])}

InitBrief ==
    /\ env = NoEnv
    /\ file = Missing
    /\ now = EXPIRY_BUFFER_MS
    /\ client = NewClient(None, None)
    /\ probes = 0
    /\ last = Idle
    /\ rpc = NotRunning

\* _process_tasks(tasks, desc=..., descCompact=...) on a list of task dicts
ProcessTasks ==
    /\ last = Idle
    /\ \E n \in 0..MaxTasks, desc \in BOOLEAN, descCompact \in BOOLEAN :
       \E heap \in [1..n -> TaskObjects] :
       \E out \in {_process_tasks(heap, [i \in 1..n |-> i], desc, descCompact)} :
          last' = [op |-> "process_tasks", heap |-> heap, tasks |-> [i \in 1..n |-> i],
                   desc |-> desc, descCompact |-> descCompact, out |-> out]
    /\ UNCHANGED <<env, file, now, client, probes, rpc>>

BriefNext == ProcessTasks \/ Return

BriefSpec == InitBrief /\ [][BriefNext]_vars

(***************************************************************************)
(* The API client, as the tool handlers of server.py call it.              *)
(***************************************************************************)
\* the token files the client may find
ClientFiles ==
    {JsonText(Dict([access_token |-> Str("A0"), refresh_token |-> None,
                    expires_at |-> None])),
     JsonText(TokenSet(Str("A0"), Str("R0"), Num(2 * EXPIRY_BUFFER_MS)))}

Init ==
    /\ env = NoEnv
    /\ file \in ClientFiles
    /\ now = EXPIRY_BUFFER_MS
    /\ \E cr \in ClientCreds : client = NewClient(cr[1], cr[2])
    /\ probes = 0
    /\ last = Idle
    /\ rpc = NotRunning

\* the bearer string the client's next call carries
Bearer(c) == Format(_token(c).token)

\* the access tokens the token endpoint hands out
NewTokens == {"A1", "A2"}

\* the answers of the token endpoint that matter to a handler: any, when the
\* 401 path of _request can reach the refresh
RefreshAnswers(c, f) ==
    IF /\ Truthy(load_tokens(f))
       /\ Truthy(Get(load_tokens(f), "refresh_token"))
       /\ Truthy(c._client_id) /\ Truthy(c._client_secret)
    THEN TokenResponses ELSE {FailedExchange}

AnyError == ErrorResp(500)

Pid(i) == "p" \o ToString(i)
InboxId == "inbox1"
AllPids == {InboxId} \cup {Pid(i) : i \in 1..MaxProjects}

\* the body of GET /project listing k projects
Projects(k) == List([i \in 1..k |-> Dict([id |-> Str(Pid(i)), name |-> Str("project")])])
ProjectsResps ==
    {JsonResp(Projects(k)) : k \in 0..MaxProjects} \cup {EmptyResp, AnyError}

ProbeTitle == "__ticktick_mcp_inbox_probe__"
CreateResps ==
    {JsonResp(Dict([id |-> Str("probe"), projectId |-> Str(InboxId),
                    title |-> Str(ProbeTitle)])),
     EmptyResp, AnyError}
DeleteResps == {EmptyResp, AnyError, UrlError}

Task(id, status, due) ==
    Dict([id |-> Str(id), title |-> Str("task"), status |-> Num(status),
          dueDate |-> Str(due)])
\* the task lists a project may hold
TaskLists ==
    {<<Task("t1", 0, DueYesterday)>>,
     <<Task("t2", 2, DueEarlier), Task("t5", 0, DueToday), Task("t1", 0, DueTomorrow),
       Dict([id |-> Str("t4"), title |-> Str("task")]), Task("t3", 0, DueTomorrow),
       Task("t7", 0, DueGarbage), Task("t8", 0, DueEarlier)>>,
     <<Task("t6", 0, DueNaive)>>}
DataResps ==
    {JsonResp(Dict([tasks |-> List(l)])) : l \in TaskLists} \cup {EmptyResp, AnyError}

NoData == [p \in AllPids |-> AnyError]
\* the answers on /project/{pid}/data: d where it is defined
DataOf(d) == [p \in AllPids |-> IF p \in DOMAIN d THEN d[p] ELSE AnyError]

Server(accepts, projects, create, delete, data) ==
    [accepts |-> accepts, projects |-> projects, create |-> create, delete |-> delete,
     data |-> data]

\* the bearer strings a service accepts: the client's or not, new tokens or not
Accepts(c, held, new) ==
    (IF held THEN {Bearer(c)} ELSE {}) \cup (IF new THEN NewTokens ELSE {})

Succeeds(resp) == resp.kind \in {"json", "empty"}

\* the pass-through operations: list_projects, create_task, delete_task
PassThroughOps == {"list_projects", "create_task", "delete_task"}
Method(op) ==
    CASE op = "list_projects" -> "GET"
      [] op = "create_task" -> "POST"
      [] op = "delete_task" -> "DELETE"
Endpoint(op) ==
    CASE op = "list_projects" -> ProjectsEndpoint
      [] op = "create_task" -> TaskEndpoint
      [] op = "delete_task" -> DeleteEndpoint("p1", "t1")
PassResps(op) ==
    (CASE op = "list_projects" -> ProjectsResps
       [] op = "create_task" -> CreateResps
       [] op = "delete_task" -> DeleteResps)
    \cup {ErrorResp(401), UrlError}

\* a tool that is one _request: list_projects, create_task, delete_task
PassThrough ==
    /\ last = Idle
    /\ \E op \in PassThroughOps, held \in BOOLEAN, new \in BOOLEAN :
       \E resp \in PassResps(op), rresp \in RefreshAnswers(client, file) :
       \E srv \in {Server(Accepts(client, held, new), resp, resp, resp, NoData)} :
       \E out \in {_request(client, file, srv, Method(op), Endpoint(op), rresp, now)} :
             /\ client' = out.client
             /\ file' = out.file
             /\ last' = [op |-> op, client |-> client, file |-> file, srv |-> srv,
                         resp |-> resp, rresp |-> rresp, out |-> out]
    /\ UNCHANGED <<env, now, probes, rpc>>

\* the services a handler that needs the inbox id may meet: those that reject
\* the client's bearer, and those that accept it, with each answer that the
\* handler can come to ask for
InboxServers(c, dataResps) ==
    {Server(Accepts(c, FALSE, new), AnyError, AnyError, AnyError, NoData) :
       new \in BOOLEAN}
    \cup
    {Server(Accepts(c, TRUE, FALSE), AnyError, cr, de, DataOf([p \in {InboxId} |-> da])) :
       cr \in IF Truthy(c._inbox_id) THEN {AnyError} ELSE CreateResps,
       de \in IF Truthy(c._inbox_id) THEN {AnyError} ELSE DeleteResps,
       da \in dataResps}

\* the tool get_inbox_id
GetInboxId ==
    /\ last = Idle
    /\ \E srv \in InboxServers(client, {AnyError}), rresp \in RefreshAnswers(client, file) :
       \E out \in {get_inbox_id(client, file, srv, rresp, now)} :
             /\ probes + out.probes <= MaxProbes
             /\ client' = out.client
             /\ file' = out.file
             /\ probes' = probes + out.probes
             /\ last' = [op |-> "get_inbox_id", client |-> client, file |-> file,
                         srv |-> srv, rresp |-> rresp, out |-> out]
    /\ UNCHANGED <<env, now, rpc>>

\* the tool get_inbox
GetInboxWithData ==
    /\ last = Idle
    /\ \E srv \in InboxServers(client, DataResps), rresp \in RefreshAnswers(client, file) :
       \E out \in {get_inbox_with_data(client, file, srv, rresp, now)} :
             /\ probes + out.probes <= MaxProbes
             /\ client' = out.client
             /\ file' = out.file
             /\ probes' = probes + out.probes
             /\ last' = [op |-> "get_inbox_with_data", client |-> client, file |-> file,
                         srv |-> srv, rresp |-> rresp, out |-> out]
    /\ UNCHANGED <<env, now, rpc>>

\* the project ids get_today_tasks fetches when GET /project answers resp
Listed(resp) ==
    IF resp.kind = "json" THEN {InboxId} \cup {Pid(i) : i \in 1..Len(resp.data.v)}
    ELSE {InboxId}

\* the services get_today_tasks may meet
TodayServers(c) ==
    {Server(Accepts(c, FALSE, new), AnyError, AnyError, AnyError, NoData) :
       new \in BOOLEAN}
    \cup
    UNION {
      UNION {
        {Server(Accepts(c, TRUE, FALSE), pr, cr, de, DataOf(d)) :
           de \in IF cr.kind = "json" THEN {EmptyResp, AnyError} ELSE {AnyError},
           d \in IF Succeeds(pr) /\ (Truthy(c._inbox_id) \/ cr.kind = "json")
                 THEN [Listed(pr) -> DataResps] ELSE {<<>>}}
        : cr \in IF Succeeds(pr) /\ ~Truthy(c._inbox_id) THEN CreateResps ELSE {AnyError}}
      : pr \in ProjectsResps}

\* the tool get_today, were it registered: get_today_tasks
GetTodayTasks ==
    /\ last = Idle
    /\ \E srv \in TodayServers(client), rresp \in RefreshAnswers(client, file) :
       \E out \in {get_today_tasks(client, file, srv, rresp, now)} :
             /\ probes + out.probes <= MaxProbes
             /\ client' = out.client
             /\ file' = out.file
             /\ probes' = probes + out.probes
             /\ last' = [op |-> "get_today_tasks", client |-> client, file |-> file,
                         srv |-> srv, rresp |-> rresp, out |-> out]
    /\ UNCHANGED <<env, now, rpc>>

Next == PassThrough \/ GetInboxId \/ GetInboxWithData \/ GetTodayTasks \/ Return

Spec == Init /\ [][Next]_vars

(***************************************************************************)
(* The token store as both of its writers leave it: get_access_token,      *)
(* awaited, and the Requests of the client.                                *)
(***************************************************************************)
TokenNext == GetAccessToken \/ Tick \/ PassThrough \/ Return

TokenSpec == InitAuth /\ [][TokenNext]_vars

(***************************************************************************)
(* The RPC loop (server.py: run).  A line of stdin is end of input, blank,  *)
(* text that is no JSON, or the JSON text of a value.                      *)
(***************************************************************************)
EofLine == [kind |-> "eof"]
BlankLine == [kind |-> "blank"]
InvalidLine == [kind |-> "invalid"]
JsonLine(v) == [kind |-> "json", text |-> json_dumps(v)]

\* the id, method and params members a message may carry
IdMembers == {<<>>, [id |-> None], [id |-> Num(0)], [id |-> Str("a")]}
OtherMethods == {<<>>, [method |-> Str("tools/list")], [method |-> Str("ping")]}
InitializeParams == {<<>>, [params |-> List(<<>>)],
                     [params |-> Dict([protocolVersion |-> Str("2025-03-26")])]}
CallParams ==
    {<<>>, [params |-> List(<<>>)],
     [params |-> Dict([name |-> List(<<>>)])],
     [params |-> Dict([name |-> Str("nonexistent_tool"), arguments |-> Dict(<<>>)])],
     [params |-> Dict([name |-> Str("list_projects")])],
     [params |-> Dict([name |-> Str("list_projects"), arguments |-> Dict([x |-> Num(1)])])],
     [params |-> Dict([name |-> Str("list_projects"), arguments |-> List(<<>>)])],
     [params |-> Dict([name |-> Str("get_inbox_id"), arguments |-> Dict(<<>>)])],
     [params |-> Dict([name |-> Str("delete_task"),
                       arguments |-> Dict([projectId |-> Str("p1"), taskId |-> Str("t1")])])]}

\* the lines stdin may hold
Lines ==
    {EofLine, BlankLine, InvalidLine, JsonLine(Num(5)), JsonLine(List(<<>>)), JsonLine(None)}
    \cup {JsonLine(Dict(i @@ m)) : i \in IdMembers, m \in OtherMethods}
    \cup {JsonLine(Dict(i @@ [method |-> Str("initialize")] @@ pa)) :
            i \in IdMembers, pa \in InitializeParams}
    \cup {JsonLine(Dict(i @@ [method |-> Str("tools/call")] @@ pa)) :
            i \in IdMembers, pa \in CallParams}

\* the loop awaiting a line
Awaiting(r) ==
    [r EXCEPT !.pc = "awaiting", !.msg_id = None, !.method = None, !.params = None,
              !.response = None, !.calls = 0, !.invoked = FALSE]

\* what the loop has read: the kind of the line, whether the message carries
\* an id member and whether the loop goes on to dispatch it
Seen(line, msg) ==
    [kind |-> line.kind,
     object |-> line.kind = "json" /\ msg.t = "dict",
     has_id |-> line.kind = "json" /\ msg.t = "dict" /\ "id" \in DOMAIN msg.v,
     id |-> IF line.kind = "json" /\ msg.t = "dict" THEN Get(msg, "id") ELSE None]

\* the test for a notification, as `if not msg_id`
IsNotificationFalsy(msg_id) == ~Truthy(msg_id)
\* the test for a notification, `if msg_id is None`
IsNotification(msg_id) == msg_id = None

\* run() from json.loads to the test for a notification
Parsed(r, msg) ==
    IF msg.t # "dict"
    THEN [r EXCEPT !.pc = "crashed"]
    ELSE IF IsNotification(Get(msg, "id"))
    THEN Awaiting(r)
    ELSE [r EXCEPT !.pc = "parsed",
                   !.msg_id = Get(msg, "id"),
                   !.method = IF "method" \in DOMAIN msg.v THEN msg.v["method"] ELSE Str(""),
                   !.params = IF "params" \in DOMAIN msg.v THEN msg.v["params"] ELSE Dict(<<>>)]

\* run() without the try around json.loads
AfterLineNoCatch(r, line) ==
    CASE line.kind = "eof" -> [r EXCEPT !.pc = "done"]
      [] line.kind = "blank" -> Awaiting(r)
      [] line.kind = "invalid" -> [r EXCEPT !.pc = "crashed"]
      [] line.kind = "json" -> Parsed(r, json_loads(line.text))

\* run() from stdin.readline() to the test for a notification
AfterLine(r, line) ==
    CASE line.kind = "eof" -> [r EXCEPT !.pc = "done"]
      [] line.kind \in {"blank", "invalid"} -> Awaiting(r)
      [] line.kind = "json" -> Parsed(r, json_loads(line.text))

\* the loop before the first line is read
Started ==
    [pc |-> "awaiting", nread |-> 0, seen |-> <<>>, msg_id |-> None, method |-> None,
     params |-> None, response |-> None, calls |-> 0, invoked |-> FALSE, stdout |-> <<>>]

InitRpc ==
    /\ env = NoEnv
    /\ file \in ClientFiles
    /\ now = EXPIRY_BUFFER_MS
    /\ client = NewClient(Str("cid"), Str("sec"))
    /\ probes = 0
    /\ last = Idle
    /\ rpc = Started

\* stdin.readline() and what run() does with the line, up to the dispatch
ReadLine ==
    /\ rpc.pc = "awaiting"
    /\ \E line \in Lines :
          /\ rpc.nread = MaxLines => line = EofLine
          /\ rpc' = IF line = EofLine THEN AfterLine(rpc, line)
                    ELSE AfterLine([rpc EXCEPT !.nread = @ + 1,
                                               !.seen = Append(@, Seen(line,
                                                   IF line.kind = "json"
                                                   THEN json_loads(line.text) ELSE None))],
                                   line)
    /\ UNCHANGED <<env, file, now, client, probes, last>>

\* the services a tool call of the loop may meet
RpcServers(c) ==
    {Server(Accepts(c, held, FALSE), JsonResp(Projects(1)), cr, de, NoData) :
       held \in BOOLEAN,
       cr \in {JsonResp(Dict([id |-> Str("probe"), projectId |-> Str(InboxId),
                              title |-> Str(ProbeTitle)])), AnyError},
       de \in {EmptyResp, AnyError}}

\* does the request at hand reach a handler that calls the remote service
CallsOut(r) ==
    /\ r.method = Str("tools/call")
    /\ r.params.t = "dict"
    /\ "name" \in DOMAIN r.params.v
    /\ r.params.v["name"].t = "str"
    /\ r.params.v["name"].v \in ToolNames

\* result = _handle(method, params, client), and the response made of it
Dispatch ==
    /\ rpc.pc = "parsed"
    /\ \E srv \in IF CallsOut(rpc) THEN RpcServers(client) ELSE {RpcServers(client)} :
       \E h \in {_handle(rpc.method, rpc.params, client, file,
                         IF CallsOut(rpc) THEN srv ELSE CHOOSE x \in srv : TRUE,
                         FailedExchange, now)} :
          /\ probes + h.probes <= MaxProbes
          /\ client' = h.client
          /\ file' = h.file
          /\ probes' = probes + h.probes
          /\ rpc' = [rpc EXCEPT !.pc = "dispatched", !.response = Response(rpc.msg_id, h),
                                !.calls = h.calls, !.invoked = h.invoked]
    /\ UNCHANGED <<env, now, last>>

\* stdout.write(json.dumps(response) + "\n"); stdout.flush()
WriteResponse ==
    /\ rpc.pc = "dispatched"
    /\ rpc' = Awaiting([rpc EXCEPT !.stdout = Append(@, json_dumps(rpc.response))])
    /\ UNCHANGED <<env, file, now, client, probes, last>>

RpcNext == ReadLine \/ Dispatch \/ WriteResponse

RpcSpec == InitRpc /\ [][RpcNext]_vars

(***************************************************************************)
(* Properties of the API client, under Spec.  They are stated on the      *)
(* handler that has just run: the client and the token file before it, the *)
(* remote service it met, and its outcome.                                 *)
(***************************************************************************)
IsRequest == last.op \in PassThroughOps
\* the service accepts the access token the token endpoint hands out
NewTokenAccepted ==
    /\ "access_token" \in DOMAIN last.rresp.body.v
    /\ last.rresp.body.v["access_token"].v \in last.srv.accepts
\* the refresh exchange would succeed
RefreshWouldSucceed == last.rresp.status < 400 /\ "access_token" \in DOMAIN last.rresp.body.v
\* the token file carries a refresh token and the credentials are configured
CanRefresh ==
    /\ last.file.k = "json"
    /\ load_tokens(last.file).v.refresh_token.t = "str"
    /\ load_tokens(last.file).v.refresh_token.v # ""
    /\ client._client_id.t = "str" /\ client._client_id.v # ""
    /\ client._client_secret.t = "str" /\ client._client_secret.v # ""
\* the Request failed with the API error of status 401
Failed401 ==
    /\ last.out.raised
    /\ last.out.exc = ApiError(401, Method(last.op), Endpoint(last.op), Str("error"))

\* C1: a Request whose first call gets 401, with a refresh token persisted,
\* credentials configured, a refresh exchange that succeeds and a retried call
\* that gets 200, returns the payload of the 200 response.
C1_RefreshRetryReturnsPayload ==
    (IsRequest /\ last.out.first = 401 /\ CanRefresh /\ RefreshWouldSucceed
       /\ NewTokenAccepted /\ last.resp.status = 200)
    => /\ ~last.out.raised
       /\ last.out.value = last.resp.data

\* C2: one Request makes at most one refresh exchange and at most two HTTP
\* calls; when the refresh or the retry raises, the failure is swallowed and
\* the Request fails with the original status 401.
C2_OneRefreshOneRetry ==
    IsRequest
    => /\ last.out.refreshes <= 1
       /\ last.out.calls <= 2
       /\ (last.out.first = 401 /\ (last.out.calls = 1 \/ last.resp.kind = "urlerror"))
          => Failed401

C2_Witness ==
    /\ IsRequest /\ last.out.first = 401 /\ CanRefresh /\ RefreshWouldSucceed
    /\ last.out.calls = 1
    /\ Failed401

\* C8, over any sequence of calls: the inbox probe is executed at most once in
\* the lifetime of the process, whatever the outcome of its create-task call.
C8_ProbeAtMostOnce == probes <= 1

\* C8, once an id is cached: a handler executes the probe at most once; once
\* an inbox id is cached no handler executes the probe again, and the cached
\* id stays; and an id is cached only by a probe.
C8_NoProbeOnceCached ==
    [][/\ probes' <= probes + 1
       /\ Truthy(client._inbox_id) => (probes' = probes /\ client'._inbox_id = client._inbox_id)
       /\ Truthy(client'._inbox_id) => probes' >= 1]_vars

C8_Witness ==
    /\ last.op = "get_today_tasks"
    /\ Truthy(last.client._inbox_id)
    /\ ~last.out.raised
    /\ last.out.probes = 0
    /\ probes = 2

\* the probe of get_inbox_id ran and its create-task call succeeded
ProbeCreated ==
    /\ last.op = "get_inbox_id"
    /\ ~Truthy(last.client._inbox_id)
    /\ Bearer(last.client) \in last.srv.accepts
    /\ last.srv.create.kind = "json"

\* C9: when the create-task call of the probe succeeds, get_inbox_id caches
\* and returns the projectId of the throwaway task, even if deleting the task
\* fails.
C9_DeleteFailureIgnored ==
    ProbeCreated
    => /\ ~last.out.raised
       /\ last.out.value = last.srv.create.data.v["projectId"]
       /\ client._inbox_id = last.srv.create.data.v["projectId"]

C9_Witness ==
    /\ ProbeCreated
    /\ last.srv.delete.kind \in {"httperror", "urlerror"}
    /\ last.out.value = Str("inbox1")
    /\ last.out.calls = 2

\* get_today_tasks has obtained the project list and the inbox id
ListedAndInbox ==
    /\ last.op = "get_today_tasks"
    /\ Bearer(last.client) \in last.srv.accepts
    /\ last.srv.projects.kind \in {"json", "empty"}
    /\ Truthy(last.client._inbox_id) \/ last.srv.create.kind = "json"
\* the project ids get_today_tasks goes through
AskedPids ==
    <<InboxId>> \o (IF last.srv.projects.kind = "json"
                    THEN [i \in 1..Len(last.srv.projects.data.v) |->
                            last.srv.projects.data.v[i].v["id"].v]
                    ELSE <<>>)
\* no task of the projects has a due date that cannot be compared
Comparable ==
    \A i \in 1..Len(AskedPids) :
       last.srv.data[AskedPids[i]].kind = "json"
       => \A j \in 1..Len(last.srv.data[AskedPids[i]].data.v["tasks"].v) :
             Get(last.srv.data[AskedPids[i]].data.v["tasks"].v[j], "dueDate") # Str(DueNaive)

\* C10: once the project list and the inbox id are obtained, a project whose
\* data cannot be fetched (an error status, or no usable JSON payload) is
\* skipped, and the tasks of every other project are processed and returned.
C10_FailedProjectSkipped ==
    (ListedAndInbox /\ Comparable)
    => /\ ~last.out.raised
       /\ last.out.fetched = SelectSeq(AskedPids, LAMBDA p : last.srv.data[p].kind = "json")

\* get_today_tasks returned a list
TodayReturned == last.op = "get_today_tasks" /\ ~last.out.raised
\* the projects whose data was fetched, in the order of the aggregation
FetchedPids == SelectSeq(AskedPids, LAMBDA p : last.srv.data[p].kind = "json")
\* the tasks the service holds for the i-th fetched project
TasksOf(i) == last.srv.data[FetchedPids[i]].data.v["tasks"].v
\* the occurrences of tasks: <<i, j>> is the j-th task of the i-th project
Occurrences ==
    UNION {{<<i, j>> : j \in 1..Len(TasksOf(i))} : i \in 1..Len(FetchedPids)}
TaskAt(o) == TasksOf(o[1])[o[2]]
Before(q, o) == q[1] < o[1] \/ (q[1] = o[1] /\ q[2] < o[2])
FirstOfItsId(o) ==
    \A q \in Occurrences : TaskAt(q).v["id"] = TaskAt(o).v["id"] => ~Before(q, o)
Completed(task) == "status" \in DOMAIN task.v /\ task.v["status"] = Num(2)
\* the due date is present, parsable and at or before the end of the UTC day
DueByToday(task) ==
    /\ "dueDate" \in DOMAIN task.v
    /\ task.v["dueDate"].v \in {DueEarlier, DueYesterday, DueToday}
\* the tasks of the list get_today_tasks returned
ResultTasks == {last.out.value.v[k] : k \in 1..Len(last.out.value.v)}

\* C11: the list get_today_tasks returns holds a task exactly when it is the
\* first occurrence of its id across the fetched projects (inbox first), is
\* not completed and is due at or before the end of the current UTC day; no
\* id appears twice, and no completed or undated task appears.
C11_TodayResult ==
    TodayReturned
    => /\ ResultTasks = {TaskAt(o) : o \in {q \in Occurrences :
                             FirstOfItsId(q) /\ ~Completed(TaskAt(q)) /\ DueByToday(TaskAt(q))}}
       /\ \A j, k \in 1..Len(last.out.value.v) :
             last.out.value.v[j].v["id"] = last.out.value.v[k].v["id"] => j = k
       /\ \A x \in ResultTasks : ~Completed(x) /\ "dueDate" \in DOMAIN x.v

\* a returned list from which a task due yesterday is missing, because an
\* earlier project holds a task of the same id that is due tomorrow
C11_Witness ==
    /\ TodayReturned
    /\ Len(FetchedPids) >= 2
    /\ \E o, q \in Occurrences :
          /\ Before(q, o)
          /\ TaskAt(q).v["id"] = TaskAt(o).v["id"]
          /\ Get(TaskAt(q), "dueDate") = Str(DueTomorrow)
          /\ Get(TaskAt(o), "dueDate") = Str(DueYesterday)
    /\ \E x \in ResultTasks : x.v["id"] = Str("t5")
    /\ \E x \in ResultTasks : x.v["id"] = Str("t8")
    /\ \A x \in ResultTasks : x.v["id"] # Str("t1")

\* the final response of the Request: the status and data that line 55 of
\* client.py tests, when an HTTP response was received at all
GotResponse == last.out.first # 0
\* the Request failed with the API error of its final status
FailedWithStatus ==
    /\ last.out.raised
    /\ last.out.exc.type = "Exception"
    /\ "status" \in DOMAIN last.out.exc
    /\ last.out.exc.status = last.out.status
    /\ last.out.exc.method = Method(last.op)
    /\ last.out.exc.endpoint = Endpoint(last.op)

HandlerRan == last # Idle
\* the client held an access token when the handler was entered
HeldBefore == Truthy(last.client._access_token)
\* the handler made a refresh exchange, persisted its TokenSet and holds the
\* access token of it (lines 47-49 of client.py ran to the end)
RefreshedAndSaved ==
    /\ last.out.refreshes >= 1
    /\ load_tokens(file).t = "dict"
    /\ Get(load_tokens(file), "access_token") = client._access_token

\* C22: the client calls get_access_token only while it holds no access
\* token: a Request entered with a token held makes no call of it and one
\* entered with none makes one; and a token once held changes only through a
\* 401-triggered refresh that succeeded.
C22_TokenResolvedOnce ==
    /\ IsRequest => (last.out.resolved = 1 <=> ~HeldBefore)
    /\ IsRequest => last.out.resolved \in {0, 1}
    /\ (HandlerRan /\ HeldBefore)
          => (client._access_token = last.client._access_token \/ RefreshedAndSaved)
    /\ HandlerRan => Truthy(client._access_token)

\* a Request on a client that an earlier handler left with a token held
C22_Witness ==
    /\ IsRequest /\ HeldBefore
    /\ last.out.resolved = 0
    /\ last.out.first = 401
    /\ client._access_token = last.client._access_token

(***************************************************************************)
(* Properties of get_access_token, under AuthSpec.                         *)
(* They are stated on the call that has just run: its inputs (the token    *)
(* file before the call, the clock, the configuration, the answers of the  *)
(* token endpoint) and its outcome.                                        *)
(***************************************************************************)
Called == last.op = "get_access_token"
NonEmptyStr(x) == x.t = "str" /\ x.v # ""
\* an access token is supplied by configuration
EnvSupplied == NonEmptyStr(env.TICKTICK_ACCESS_TOKEN)
AuthCodeSupplied == NonEmptyStr(env.TICKTICK_AUTH_CODE)
CredsConfigured == NonEmptyStr(client._client_id) /\ NonEmptyStr(client._client_secret)
\* the token file held a TokenSet before the call
Persisted == last.file.k = "json"
PersistedExpired ==
    /\ Persisted
    /\ load_tokens(last.file).v.expires_at.t = "int"
    /\ last.now > load_tokens(last.file).v.expires_at.v - 60000
PersistedRefreshToken == Persisted /\ NonEmptyStr(load_tokens(last.file).v.refresh_token)
\* would the token endpoint's answer make the exchange succeed
ExchangeOK(resp) == resp.status < 400 /\ "access_token" \in DOMAIN resp.body.v
\* the token file now holds the TokenSet made from the answer resp
HoldsNew(resp) ==
    /\ file.k = "json"
    /\ load_tokens(file).t = "dict"
    /\ load_tokens(file).v.access_token = resp.body.v["access_token"]
    /\ load_tokens(file).v.expires_at =
         Num(last.now + 1000 * (IF "expires_in" \in DOMAIN resp.body.v
                                THEN resp.body.v["expires_in"].v ELSE 3600))

\* C3: with no configured access token, an expired persisted TokenSet that
\* carries a refresh token, and credentials configured, get_access_token makes
\* exactly one refresh exchange; when it succeeds the new TokenSet is persisted
\* and the new access token returned, with no code exchange.
C3_RefreshesExpired ==
    (Called /\ ~EnvSupplied /\ PersistedExpired /\ PersistedRefreshToken /\ CredsConfigured)
    => /\ last.out.refreshes = 1
       /\ ExchangeOK(last.rresp)
          => /\ ~last.out.raised
             /\ last.out.value = last.rresp.body.v["access_token"]
             /\ last.out.exchanges = 0
             /\ HoldsNew(last.rresp)

C3_Witness ==
    /\ Called /\ ~EnvSupplied /\ PersistedExpired /\ PersistedRefreshToken /\ CredsConfigured
    /\ ExchangeOK(last.rresp)
    /\ last.out.refreshes = 1
    /\ last.now - 120000 = load_tokens(last.file).v.expires_at.v
    /\ last.out.value = Str("A1")
    /\ load_tokens(last.file).v.access_token = Str("A0")

\* C4: a configured access token is returned as it is, whatever the token file
\* holds, with no refresh and no code exchange, and the token file is left
\* holding a TokenSet with that access token and no expiry.
C4_EnvTokenWins ==
    (Called /\ EnvSupplied)
    => /\ ~last.out.raised
       /\ last.out.value = env.TICKTICK_ACCESS_TOKEN
       /\ last.out.refreshes = 0
       /\ last.out.exchanges = 0
       /\ file.k = "json"
       /\ load_tokens(file).t = "dict"
       /\ load_tokens(file).v.access_token = env.TICKTICK_ACCESS_TOKEN
       /\ load_tokens(file).v.expires_at = None

C4_Witness ==
    /\ Called /\ EnvSupplied
    /\ PersistedExpired /\ PersistedRefreshToken /\ CredsConfigured /\ AuthCodeSupplied
    /\ last.out.value = Str("E")

\* C5: with no configured access token and a persisted TokenSet that is not
\* expired, get_access_token returns the persisted access token, makes no
\* exchange and leaves the token file unchanged, with or without a refresh
\* token and with or without credentials.
C5_ValidTokenReturned ==
    (Called /\ ~EnvSupplied /\ Persisted /\ ~PersistedExpired)
    => /\ ~last.out.raised
       /\ last.out.value = load_tokens(last.file).v.access_token
       /\ last.out.refreshes = 0
       /\ last.out.exchanges = 0
       /\ file = last.file

C5_Witness ==
    /\ Called /\ ~EnvSupplied /\ Persisted /\ ~PersistedExpired
    /\ ~PersistedRefreshToken /\ ~CredsConfigured
    /\ load_tokens(last.file).v.expires_at = None
    /\ last.out.value = Str("A0")

\* C6: when the refresh of an expired persisted TokenSet fails, and an auth
\* code is configured, exactly one code exchange is attempted, and on its
\* success the new TokenSet is persisted and its access token returned.
C6_FallsThroughToCode ==
    (Called /\ ~EnvSupplied /\ PersistedExpired /\ PersistedRefreshToken /\ CredsConfigured
       /\ ~ExchangeOK(last.rresp) /\ AuthCodeSupplied)
    => /\ last.out.refreshes = 1
       /\ last.out.exchanges = 1
       /\ ExchangeOK(last.cresp)
          => /\ ~last.out.raised
             /\ last.out.value = last.cresp.body.v["access_token"]
             /\ HoldsNew(last.cresp)

C6_Witness ==
    /\ Called /\ ~EnvSupplied /\ PersistedExpired /\ PersistedRefreshToken /\ CredsConfigured
    /\ ~ExchangeOK(last.rresp) /\ AuthCodeSupplied /\ ExchangeOK(last.cresp)
    /\ last.out.value = Str("A2")
    /\ load_tokens(file).v.refresh_token = Str("R2")

\* every path of get_access_token is exhausted
Exhausted ==
    /\ ~EnvSupplied
    /\ \/ ~Persisted
       \/ /\ PersistedExpired
          /\ \/ ~PersistedRefreshToken
             \/ ~CredsConfigured
             \/ ~ExchangeOK(last.rresp)
    /\ \/ ~(AuthCodeSupplied /\ CredsConfigured)
       \/ ~ExchangeOK(last.cresp)

Dispatched == rpc.pc = "dispatched"
\* the request at hand is a tools/call that names a tool
NamesTool ==
    /\ rpc.method = Str("tools/call")
    /\ rpc.params.t = "dict"
    /\ "name" \in DOMAIN rpc.params.v
    /\ rpc.params.v["name"].t = "str"
NamesUnknownTool == NamesTool /\ rpc.params.v["name"].v \notin ToolNames
\* the response is a result envelope, or an error object
IsResult(resp) == "result" \in DOMAIN resp.v /\ "error" \notin DOMAIN resp.v
IsErrorObject(resp) == "error" \in DOMAIN resp.v /\ "result" \notin DOMAIN resp.v
\* the text of a tools/call result
TextOf(resp) == resp.v["result"].v["content"].v[1].v["text"].v

\* C12: a tools/call request with an id that names a tool absent from the
\* registry gets a result, not an error object, with isError true and a text
\* that names the tool; no handler is invoked and no remote call is made.
C12_UnknownTool ==
    (Dispatched /\ NamesUnknownTool)
    => /\ IsResult(rpc.response)
       /\ rpc.response.v["id"] = rpc.msg_id
       /\ Get(rpc.response.v["result"], "isError") = Bool(TRUE)
       /\ TextOf(rpc.response) = "Unknown tool: " \o rpc.params.v["name"].v
       /\ ~rpc.invoked
       /\ rpc.calls = 0

C12_Witness ==
    /\ Dispatched /\ NamesUnknownTool
    /\ rpc.params.v["name"] = Str("nonexistent_tool")
    /\ rpc.msg_id = Num(0)
    /\ TextOf(rpc.response) = "Unknown tool: nonexistent_tool"

\* C13: the loop terminates only on end of input; no line makes it crash.
C13_LoopNeverCrashes ==
    rpc.pc \in {"done", "crashed"} => rpc.pc = "done"

\* the last line read
LastSeen(r) == r.seen[Len(r.seen)]

\* C14: a line that is no valid JSON writes nothing to stdout and leaves the
\* loop awaiting the next line, in the state it had before the line.
C14_InvalidLineDropped ==
    [][(rpc'.nread = rpc.nread + 1 /\ LastSeen(rpc').kind = "invalid")
       => /\ rpc' = [rpc EXCEPT !.nread = rpc'.nread, !.seen = rpc'.seen]
          /\ rpc'.pc = "awaiting"
          /\ rpc'.stdout = rpc.stdout
          /\ UNCHANGED <<env, file, now, client, probes, last>>]_vars

\* a line of invalid JSON, and after it a request that was answered
C14_Witness ==
    /\ rpc.pc = "awaiting"
    /\ Len(rpc.seen) = 2
    /\ rpc.seen[1].kind = "invalid"
    /\ rpc.seen[2].has_id
    /\ Len(rpc.stdout) = 1

\* no request is at hand
BetweenRequests == rpc.pc \in {"awaiting", "done", "crashed"}
\* the message carries an id member; it carries one that is not null
CarriesId(e) == e.has_id
CarriesValue(e) == e.has_id /\ e.id # None

\* C15, every id member counted: between requests, the number of lines written
\* equals the number of parsed messages that carry an id member.
C15_OneLinePerIdMember ==
    BetweenRequests => Len(rpc.stdout) = Len(SelectSeq(rpc.seen, CarriesId))

\* C15, null ids left out: between requests, the number of lines written
\* equals the number of parsed messages whose id is present and not null; a
\* message without id, or with a null id, is never answered.
C15_OneLinePerId ==
    /\ BetweenRequests => Len(rpc.stdout) = Len(SelectSeq(rpc.seen, CarriesValue))
    /\ rpc.pc \in {"parsed", "dispatched"}
       => /\ CarriesValue(LastSeen(rpc))
          /\ Len(rpc.stdout) + 1 = Len(SelectSeq(rpc.seen, CarriesValue))

\* three kinds of message were read: without id, with a null id, with id 0
C15_Witness ==
    /\ rpc.pc = "awaiting"
    /\ Len(rpc.seen) = 2
    /\ rpc.seen[1].object /\ rpc.seen[1].has_id /\ rpc.seen[1].id = None
    /\ rpc.seen[2].id = Num(0)
    /\ Len(rpc.stdout) = 1

\* the methods _handle knows
KnownMethods == {Str("initialize"), Str("tools/list"), Str("tools/call")}

\* C16: the response to a message with an id is an error object exactly when
\* its method is none of initialize, tools/list, tools/call; a tools/call is
\* always answered with a result envelope.
C16_ErrorObjectIffUnknownMethod ==
    Dispatched
    => /\ IsErrorObject(rpc.response) <=> rpc.method \notin KnownMethods
       /\ rpc.method = Str("tools/call") => IsResult(rpc.response)

\* the messages read that the loop answers
Requests == SelectSeq(rpc.seen, CarriesValue)

\* C17: one request at a time.  Every line of stdout answers the request of
\* the same rank, with its id; a request is read only when every earlier one
\* is answered; remote calls are made only while one request is dispatched,
\* and are over when its response is written.
C17_OneRequestAtATime ==
    /\ [](/\ Len(rpc.stdout) <= Len(Requests)
          /\ \A i \in 1..Len(rpc.stdout) : json_loads(rpc.stdout[i]).v["id"] = Requests[i].id
          /\ BetweenRequests => Len(rpc.stdout) = Len(Requests) /\ rpc.calls = 0
          /\ rpc.pc = "parsed" => Len(rpc.stdout) + 1 = Len(Requests) /\ rpc.calls = 0
          /\ rpc.pc = "dispatched"
             => /\ Len(rpc.stdout) + 1 = Len(Requests)
                /\ rpc.response.v["id"] = LastSeen(rpc).id)
    /\ [][/\ rpc'.nread # rpc.nread => rpc.pc = "awaiting" /\ Len(rpc.stdout) = Len(Requests)
          /\ (client' # client \/ file' # file \/ probes' # probes \/ rpc'.calls > 0)
             => rpc.pc = "parsed" /\ rpc'.pc = "dispatched"
          /\ rpc'.stdout # rpc.stdout
             => /\ rpc.pc = "dispatched"
                /\ rpc'.stdout = Append(rpc.stdout, json_dumps(rpc.response))]_vars

\* the request "a" was answered, and the request 0 was dispatched with two
\* remote calls
C17_Witness ==
    /\ Dispatched
    /\ Len(rpc.stdout) = 1
    /\ json_loads(rpc.stdout[1]).v["id"] = Str("a")
    /\ rpc.msg_id = Num(0)
    /\ rpc.calls = 2


\* the access token of the TokenSet the token file held before the call
PersistedToken == load_tokens(last.file).v.access_token
\* the call made a refresh exchange, or a code exchange, that succeeded
RefreshedNow == last.out.refreshes = 1 /\ ExchangeOK(last.rresp)
ExchangedNow == last.out.exchanges = 1 /\ ExchangeOK(last.cresp)

\* C23: get_access_token never returns the access token of a persisted
\* TokenSet that is expired: every token it returns is the configured token, a
\* persisted token that is not expired, or the token of a refresh or code
\* exchange that succeeded during the same call.
C23_NoExpiredToken ==
    (Called /\ ~last.out.raised)
    => \/ EnvSupplied /\ last.out.value = env.TICKTICK_ACCESS_TOKEN
       \/ /\ Persisted /\ ~PersistedExpired
          /\ last.out.value = PersistedToken
       \/ RefreshedNow /\ last.out.value = last.rresp.body.v["access_token"]
       \/ ExchangedNow /\ last.out.value = last.cresp.body.v["access_token"]

\* an expired TokenSet with no refresh token is passed over and the token of
\* the code exchange returned
C23_Witness ==
    /\ Called /\ ~EnvSupplied /\ PersistedExpired /\ ~PersistedRefreshToken
    /\ last.now = load_tokens(last.file).v.expires_at.v - 59999
    /\ PersistedToken = Str("A0")
    /\ ~RefreshedNow /\ ExchangedNow
    /\ ~last.out.raised /\ last.out.value = Str("A1")

(***************************************************************************)
(* Properties of the persisted TokenSet, under TokenSpec.                  *)
(***************************************************************************)
\* the token file is as it was when the operation was entered
StoreUntouched == file = last.file

\* C24: the persisted TokenSet changes only on success.  A get_access_token
\* call that ends in the unauthenticated error, or in which no exchange
\* succeeded and no token is configured, leaves the token file as it was; so
\* does a Request whose 401 path made no refresh exchange that succeeded; and
\* when a Request has changed the token file the client holds the access
\* token of the TokenSet persisted.
C24_StoreChangesOnlyOnSuccess ==
    /\ Called
       => /\ last.out.raised => StoreUntouched
          /\ (~EnvSupplied /\ ~RefreshedNow /\ ~ExchangedNow) => StoreUntouched
          /\ (~EnvSupplied /\ ~StoreUntouched)
                => \/ RefreshedNow /\ HoldsNew(last.rresp)
                   \/ ExchangedNow /\ HoldsNew(last.cresp)
    /\ IsRequest
       => /\ (last.out.refreshes = 0 \/ ~RefreshWouldSucceed) => StoreUntouched
          /\ ~StoreUntouched
                => /\ load_tokens(file).t = "dict"
                   /\ Get(load_tokens(file), "access_token") = client._access_token

\* a get_access_token call whose refresh exchange and code exchange both
\* fail ends in the unauthenticated error and leaves the expired TokenSet
C24_Witness ==
    /\ Called /\ ~EnvSupplied /\ PersistedExpired /\ PersistedRefreshToken
    /\ CredsConfigured /\ AuthCodeSupplied
    /\ last.out.refreshes = 1 /\ ~ExchangeOK(last.rresp)
    /\ last.out.exchanges = 1 /\ ~ExchangeOK(last.cresp)
    /\ last.out.raised /\ last.out.value = Str(Unauthenticated)
    /\ StoreUntouched /\ PersistedToken = Str("A0")

(***************************************************************************)
(* Properties of the token store, under StoreSpec.                         *)
(***************************************************************************)
Saved == last.op = "save_tokens" /\ ~last.out.raised
LoadedAfterSave ==
    last.op = "load_tokens" /\ last.after # Idle /\ ~last.after.out.raised
Loaded == last.op = "load_tokens"

\* load() after save(t) returns t
C19_LoadAfterSave ==
    LoadedAfterSave => (~last.out.raised /\ last.out.value = last.after.tokens)

\* each save replaces the previous record entirely: the file holds the record
\* saved and nothing else, whatever it held before
C19_SaveReplaces ==
    Saved => /\ file = JsonText(last.tokens)
             /\ LoadTokens(file).value = last.tokens
             /\ DOMAIN LoadTokens(file).value.v = DOMAIN last.tokens.v

\* load() returns None and does not fail when the file is missing or cannot
\* be parsed
C19_AbsentNotFailure ==
    (Loaded /\ last.file.k # "json") => (~last.out.raised /\ last.out.value = None)

\* C19: the token store holds a single whole record: load() after save(t)
\* returns t, each save replaces the previous record entirely, and load()
\* returns None rather than failing when the file is missing or unparsable.
C19_SingleWholeRecord ==
    /\ C19_LoadAfterSave
    /\ C19_SaveReplaces
    /\ C19_AbsentNotFailure


(***************************************************************************)
(* Properties of task post-processing, under BriefSpec.                    *)
(***************************************************************************)
Processed == last.op = "process_tasks"
\* the task dicts of the input list, as they are after the call
OriginalAfter(i) == last.out.heap[last.out.tasks[i]]

\* C20: process_tasks never mutates its input: for every task list and every
\* combination of desc and descCompact, after the call the input list has the
\* tasks it had and each of them has exactly the fields, with the values, it
\* had before the call.
C20_InputNotMutated ==
    Processed
    => /\ last.out.tasks = last.tasks
       /\ \A i \in 1..Len(last.tasks) : OriginalAfter(i) = last.heap[last.tasks[i]]

\* test_process_does_not_mutate_original: desc=False, descCompact=False on a
\* task with content and desc; the output task has neither, the original both
C20_Witness ==
    /\ Processed /\ ~last.desc /\ ~last.descCompact
    /\ Len(last.tasks) = 1
    /\ {"content", "desc"} \subseteq DOMAIN last.heap[1].v
    /\ {"content", "desc"} \cap DOMAIN last.out.heap[last.out.result[1]].v = {}
    /\ {"content", "desc"} \subseteq DOMAIN OriginalAfter(1).v


\* the tasks of the list returned, and the task of the input each was made of
OutputTask(i) == last.out.heap[last.out.result[i]]
InputTask(i) == last.heap[last.tasks[i]]
HasBriefTag(task) == _extract_brief(task) # None

\* C21, as claimed: process_tasks(tasks, desc=false, descCompact) never leaves
\* a content field, a desc field or a brief field on any output task, for
\* both values of descCompact and for tasks with and without a <brief> tag.
C21_NoDescNoBrief ==
    (Processed /\ ~last.desc)
    => \A i \in 1..Len(last.out.result) :
          {"content", "desc", "brief"} \cap DOMAIN OutputTask(i).v = {}

\* C21, amended: process_tasks(tasks, desc=false, descCompact) never leaves a
\* content field or a desc field on any output task; with descCompact=false
\* it leaves no brief field either, and with descCompact=true an output task
\* has a brief field exactly when its task has a <brief> tag, holding the
\* extracted brief.
C21_NoDescFields ==
    (Processed /\ ~last.desc)
    => /\ Len(last.out.result) = Len(last.tasks)
       /\ \A i \in 1..Len(last.out.result) :
             /\ {"content", "desc"} \cap DOMAIN OutputTask(i).v = {}
             /\ ("brief" \in DOMAIN OutputTask(i).v)
                   <=> (last.descCompact /\ HasBriefTag(InputTask(i)))
             /\ ("brief" \in DOMAIN OutputTask(i).v)
                   => OutputTask(i).v["brief"] = _extract_brief(InputTask(i))

\* test_process_compact_default_also_extracts_brief, next to a task with no
\* tag
C21_Witness ==
    /\ Processed /\ ~last.desc /\ last.descCompact
    /\ Len(last.tasks) = 2
    /\ InputTask(1).v["id"] = Str("1") /\ InputTask(2).v["id"] = Str("2")
    /\ OutputTask(1).v["brief"] = Text(<<"Buy milk">>)
    /\ DOMAIN OutputTask(1).v = {"id", "title", "brief"}
    /\ DOMAIN OutputTask(2).v = {"id", "title"}

====
